---------------------------- MODULE Spec2Model ----------------------------
(***************************************************************************)
(* Model of the HASLUN-BOT Mission System (src/unnamed/part_002): the      *)
(* stat computators over a bar series, the environment builder, the        *)
(* recommendation engine and the mission lifecycle over localStorage.      *)
(*                                                                         *)
(* A JavaScript number is modelled as an exact rational <<n, d>> in lowest *)
(* terms with d > 0, extended with NaN = <<0,0>>, +Infinity = <<1,0>> and  *)
(* -Infinity = <<-1,0>>.  Binary floating-point rounding error and the     *)
(* sign of zero are not modelled.  A bar is a record whose DOMAIN is the   *)
(* set of fields that are present (not null/undefined).                    *)
(***************************************************************************)
EXTENDS Integers, Sequences, FiniteSets, TLC

(***************************************************************************)
(* JavaScript number arithmetic                                            *)
(***************************************************************************)
Abs(a) == IF a < 0 THEN -a ELSE a

Sgn(a) == IF a < 0 THEN -1 ELSE IF a > 0 THEN 1 ELSE 0

RECURSIVE GCD(_, _)
GCD(a, b) == IF b = 0 THEN a ELSE GCD(b, a % b)

\* The number n/d, normalised; a zero denominator gives NaN or an infinity.
R(n, d) ==
  IF d = 0 THEN <<Sgn(n), 0>>
  ELSE LET g == GCD(Abs(n), Abs(d))
           s == IF d < 0 THEN -1 ELSE 1
       IN  <<(s * n) \div g, (s * d) \div g>>

NaN == <<0, 0>>

PosInf == <<1, 0>>

NegInf == <<-1, 0>>

Num(k) == <<k, 1>>

isNaN(x) == x = NaN

RAdd(x, y) ==
  IF x[2] = 0 /\ y[2] = 0
  THEN (IF x = y THEN x ELSE NaN)
  ELSE R(x[1] * y[2] + y[1] * x[2], x[2] * y[2])

RNeg(x) == <<-x[1], x[2]>>

RSub(x, y) == RAdd(x, RNeg(y))

RMul(x, y) == R(x[1] * y[1], x[2] * y[2])

RDiv(x, y) ==
  IF isNaN(x) \/ isNaN(y) THEN NaN
  ELSE IF y[2] = 0 THEN (IF x[2] = 0 THEN NaN ELSE Num(0))
  ELSE IF y[1] < 0 THEN R(-(x[1] * y[2]), -(x[2] * y[1]))
  ELSE R(x[1] * y[2], x[2] * y[1])

\* x < y; false when either side is NaN.
RLt(x, y) ==
  /\ ~isNaN(x)
  /\ ~isNaN(y)
  /\ IF x[2] = 0 /\ y[2] = 0 THEN x = NegInf /\ y = PosInf
     ELSE x[1] * y[2] < y[1] * x[2]

\* x <= y; false when either side is NaN.
RLe(x, y) == ~isNaN(x) /\ ~isNaN(y) /\ (x = y \/ RLt(x, y))

\* Math.min / Math.max of two numbers: NaN when either is NaN.
RMin(x, y) == IF isNaN(x) \/ isNaN(y) THEN NaN ELSE IF RLt(y, x) THEN y ELSE x

RMax(x, y) == IF isNaN(x) \/ isNaN(y) THEN NaN ELSE IF RLt(x, y) THEN y ELSE x

\* Math.abs
RAbs(x) == <<Abs(x[1]), x[2]>>

\* Math.round: the nearest integer, halves rounded towards +Infinity.
RRound(x) == IF x[2] = 0 THEN x ELSE Num((2 * x[1] + x[2]) \div (2 * x[2]))

\* values.reduce((a, b) => a + b, 0)
RECURSIVE RSum(_)
RSum(s) == IF s = <<>> THEN Num(0) ELSE RAdd(s[1], RSum(Tail(s)))

\* Math.min(...values) and Math.max(...values) of a non-empty sequence.
RECURSIVE RMinSeq(_)
RMinSeq(s) == IF Len(s) = 1 THEN s[1] ELSE RMin(s[1], RMinSeq(Tail(s)))

RECURSIVE RMaxSeq(_)
RMaxSeq(s) == IF Len(s) = 1 THEN s[1] ELSE RMax(s[1], RMaxSeq(Tail(s)))

\* An optional field of an object: present with value opt[1], or absent when opt = <<>>.
Field(f, opt) == IF opt = <<>> THEN <<>> ELSE f :> opt[1]

\* bar[f] != null
Has(b, f) == f \in DOMAIN b

\* bar[f] != null && !isNaN(bar[f])
HasNum(b, f) == f \in DOMAIN b /\ ~isNaN(b[f])

(***************************************************************************)
(* Shared numeric primitives                                               *)
(***************************************************************************)
linearRegressionSlope(values) ==
  LET n == Len(values)
      sumX == RSum([i \in 1..n |-> Num(i - 1)])
      sumY == RSum(values)
      sumXY == RSum([i \in 1..n |-> RMul(Num(i - 1), values[i])])
      sumX2 == RSum([i \in 1..n |-> Num((i - 1) * (i - 1))])
  IN  IF n < 2 THEN Num(0)
      ELSE RDiv(RSub(RMul(Num(n), sumXY), RMul(sumX, sumY)),
                RSub(RMul(Num(n), sumX2), RMul(sumX, sumX)))

countSignFlips(values) ==
  Cardinality({i \in 2..Len(values) :
                 RLe(Num(0), values[i]) # RLe(Num(0), values[i - 1])})

normalize(value, min, max) ==
  IF max = min THEN Num(50)
  ELSE RMax(Num(0),
            RMin(Num(100),
                 RMul(RDiv(RSub(value, min), RSub(max, min)), Num(100))))

clamp(value, min, max) == RMax(min, RMin(max, value))


(***************************************************************************)
(* Stat computators: each returns [value, why]; why is the rationale, a    *)
(* tuple of the labels and numbers the template string interpolates.       *)
(***************************************************************************)
Insufficient == [value |-> Num(50), why |-> <<"Insufficient data">>]

\* close - kernelRegression over the bars where both are valid, in order.
deviations(bars) ==
  LET kept == SelectSeq(bars, LAMBDA b : Has(b, "close") /\ HasNum(b, "kernelRegression"))
  IN  [i \in 1..Len(kept) |-> RSub(kept[i].close, kept[i].kernelRegression)]

chopFlipsOf(bars) ==
  IF Len(deviations(bars)) >= 2 THEN countSignFlips(deviations(bars)) ELSE 0

\* Mutant of latestG200Of: the scan runs from the oldest bar.
latestG200Oldest(bars) ==
  LET n == Len(bars)
      valid == {i \in 1..n : HasNum(bars[i], "G200")}
  IN  IF valid = {} THEN bars[n].close
      ELSE bars[CHOOSE i \in valid : \A j \in valid : i <= j].G200

\* The G200 of the newest bar that has a valid one, else the latest close.
latestG200Of(bars) ==
  LET n == Len(bars)
      valid == {i \in 1..n : HasNum(bars[i], "G200")}
  IN  IF valid = {} THEN bars[n].close
      ELSE bars[CHOOSE i \in valid : \A j \in valid : j <= i].G200

hullSlope(bars) ==
  LET kept == SelectSeq(bars, LAMBDA b : HasNum(b, "kernelRegression"))
      kreSeries == [i \in 1..Len(kept) |-> kept[i].kernelRegression]
  IN  IF Len(kreSeries) >= 2 THEN linearRegressionSlope(kreSeries) ELSE Num(0)

anchorDistOf(bars) ==
  LET latestClose == bars[Len(bars)].close
  IN  RAbs(RDiv(RSub(latestClose, latestG200Of(bars)), latestClose))

\* Mutant of anchorScoreOf: the floor Math.max(0, ...) is forgotten.
anchorScoreUnfloored(bars) == RSub(Num(30), RMul(anchorDistOf(bars), Num(200)))

anchorScoreOf(bars) == RMax(Num(0), RSub(Num(30), RMul(anchorDistOf(bars), Num(200))))

computeHull(bars) ==
  LET n == Len(bars)
      kreSlope == hullSlope(bars)
      slopeScore == RMin(RMul(RAbs(kreSlope), Num(500)), Num(50))
      chopFlips == chopFlipsOf(bars)
      chopPenalty == RMin(Num(chopFlips * 3), Num(30))
      anchorDist == anchorDistOf(bars)
      anchorScore == anchorScoreOf(bars)
      rawHull == RSub(RAdd(RAdd(Num(40), slopeScore), anchorScore), chopPenalty)
      hull == clamp(RRound(rawHull), Num(0), Num(100))
      slopeDir == IF RLt(R(1, 1000), kreSlope) THEN "upward"
                  ELSE IF RLt(kreSlope, R(-1, 1000)) THEN "downward" ELSE "flat"
      chopDesc == IF chopFlips <= 5 THEN "low chop"
                  ELSE IF chopFlips <= 10 THEN "moderate chop" ELSE "high chop"
      anchorDesc == IF RLt(anchorDist, R(3, 100)) THEN "close to G200"
                    ELSE IF RLt(anchorDist, R(8, 100)) THEN "moderate distance from G200"
                    ELSE "far from G200"
  IN  IF n < 5 THEN Insufficient
      ELSE [value |-> hull, why |-> <<"KRE slope", slopeDir, chopDesc, chopFlips, anchorDesc>>]

\* x.toFixed(k) for scale = 10^k: the number of 1/scale units, halves away from zero.
toFixed(x, scale) ==
  IF x[2] = 0 THEN x
  ELSE Num(Sgn(x[1]) * ((2 * Abs(x[1]) * scale + x[2]) \div (2 * x[2])))

avgATROf(bars) ==
  LET kept == SelectSeq(bars, LAMBDA b : Has(b, "high") /\ Has(b, "low")
                                          /\ Has(b, "close") /\ b.close # Num(0))
      atrSum == RSum([i \in 1..Len(kept) |->
                        RDiv(RSub(kept[i].high, kept[i].low), kept[i].close)])
  IN  IF Len(kept) > 0 THEN RDiv(atrSum, Num(Len(kept))) ELSE R(3, 100)

computeFirepower(bars) ==
  LET n == Len(bars)
      avgATR == avgATROf(bars)
      atrScore == RMul(normalize(avgATR, R(1, 100), R(6, 100)), R(6, 10))
      kept == SelectSeq(bars, LAMBDA b : HasNum(b, "histogram"))
      histValues == [i \in 1..Len(kept) |-> RAbs(kept[i].histogram)]
      avgHist == IF Len(histValues) > 0
                 THEN RDiv(RSum(histValues), Num(Len(histValues))) ELSE Num(0)
      histScore == IF Len(histValues) > 0
                   THEN RMul(normalize(avgHist, Num(0), R(3, 10)), R(4, 10)) ELSE Num(0)
      histDesc == IF Len(histValues) = 0 THEN "momentum unavailable"
                  ELSE IF RLt(avgHist, R(1, 10)) THEN "weak momentum"
                  ELSE IF RLt(avgHist, R(2, 10)) THEN "moderate momentum"
                  ELSE "strong momentum"
      firepower == clamp(RRound(RAdd(atrScore, histScore)), Num(0), Num(100))
      atrDesc == IF RLt(avgATR, R(2, 100)) THEN "low range"
                 ELSE IF RLt(avgATR, R(4, 100)) THEN "moderate range" ELSE "high range"
  IN  IF n < 5 THEN Insufficient
      ELSE [value |-> firepower,
            why |-> <<atrDesc, toFixed(RMul(avgATR, Num(100)), 10), histDesc>>]

computeSensors(bars) ==
  LET n == Len(bars)
      kept == SelectSeq(bars, LAMBDA b : Has(b, "volume") /\ Has(b, "volumeMA")
                                          /\ RLt(Num(0), b.volumeMA))
      ratios == [i \in 1..Len(kept) |-> RDiv(kept[i].volume, kept[i].volumeMA)]
      validCount == Len(kept)
      aboveMACount == Cardinality({i \in 1..validCount : RLt(Num(1), ratios[i])})
      avgRatio == RDiv(RSum(ratios), Num(validCount))
      aboveMAPercent == R(aboveMACount, validCount)
      ratioScore == RMul(normalize(avgRatio, R(7, 10), R(15, 10)), R(5, 10))
      consistencyScore == RMul(aboveMAPercent, Num(50))
      sensors == clamp(RRound(RAdd(ratioScore, consistencyScore)), Num(0), Num(100))
      flowDesc == IF RLt(avgRatio, R(9, 10)) THEN "below-average flow"
                  ELSE IF RLt(avgRatio, R(11, 10)) THEN "neutral flow"
                  ELSE "above-average flow"
      consistDesc == IF RLt(aboveMAPercent, R(4, 10)) THEN "inconsistent"
                     ELSE IF RLt(aboveMAPercent, R(6, 10)) THEN "mixed" ELSE "consistent"
  IN  IF n < 5 THEN Insufficient
      ELSE IF validCount = 0 THEN [value |-> Num(50), why |-> <<"No volume data">>]
      ELSE [value |-> sensors,
            why |-> <<flowDesc, toFixed(avgRatio, 100), consistDesc,
                      RRound(RMul(aboveMAPercent, Num(100)))>>]

\* bar[f] != null && bar[f] !== 0 && !isNaN(bar[f])
hasSignal(b, f) == Has(b, f) /\ b[f] # Num(0) /\ ~isNaN(b[f])

barsSinceSignalOf(bars) ==
  LET n == Len(bars)
      sig == {i \in 1..n : hasSignal(bars[i], "buy") \/ hasSignal(bars[i], "sell")}
  IN  IF sig = {} THEN n ELSE n - (CHOOSE i \in sig : \A j \in sig : j <= i)

computeFuel(bars) ==
  LET n == Len(bars)
      barsSinceSignal == barsSinceSignalOf(bars)
      persistenceScore == RMul(normalize(Num(barsSinceSignal), Num(0), Num(32)), R(6, 10))
      chopFlips == chopFlipsOf(bars)
      lowChopBonus == RMax(Num(0), Num(40 - chopFlips * 4))
      fuel == clamp(RRound(RAdd(persistenceScore, lowChopBonus)), Num(0), Num(100))
      persistDesc == IF barsSinceSignal < 5 THEN "recent signal"
                     ELSE IF barsSinceSignal < 15 THEN "signal aging" ELSE "mature trend"
      chopDesc == IF chopFlips <= 5 THEN "steady path"
                  ELSE IF chopFlips <= 10 THEN "some turbulence" ELSE "choppy conditions"
  IN  IF n < 5 THEN Insufficient
      ELSE [value |-> fuel, why |-> <<persistDesc, barsSinceSignal, chopDesc>>]

bandKeys ==
  << "A1", "A2", "A3", "A4", "A5", "B1", "B2", "B3", "B4", "B5",
     "C1", "C2", "C3", "C4", "C5", "D1", "D2", "D3", "D4", "D5",
     "E1", "E2", "E3", "E4", "E5", "F1", "F2", "F3", "F4", "F5" >>

\* bandKeys.map(k => latest[k]).filter(v => v != null && !isNaN(v))
bandValuesOf(latest) ==
  LET keys == SelectSeq(bandKeys, LAMBDA k : HasNum(latest, k))
  IN  [i \in 1..Len(keys) |-> latest[keys[i]]]

\* Mutant of bandProximityScoreOf: the default is 0, not 50.
bandProximityScoreZeroDefault(latest) ==
  LET bandValues == bandValuesOf(latest)
      lower == RMinSeq(bandValues)
      upper == RMaxSeq(bandValues)
      pos == RDiv(RSub(latest.close, lower), RSub(upper, lower))
      distFromCenter == RMul(RAbs(RSub(pos, R(1, 2))), Num(2))
  IN  IF Len(bandValues) > 0 /\ RLt(lower, upper)
      THEN RMul(distFromCenter, Num(50))
      ELSE Num(0)

bandProximityScoreOf(latest) ==
  LET bandValues == bandValuesOf(latest)
      lower == RMinSeq(bandValues)
      upper == RMaxSeq(bandValues)
      pos == RDiv(RSub(latest.close, lower), RSub(upper, lower))
      distFromCenter == RMul(RAbs(RSub(pos, R(1, 2))), Num(2))
  IN  IF Len(bandValues) > 0 /\ RLt(lower, upper)
      THEN RMul(distFromCenter, Num(50))
      ELSE Num(50)

\* countSignFlips(bars.map(b => b.histogram).filter(v => v != null))
flipRateOf(bars) ==
  LET kept == SelectSeq(bars, LAMBDA b : Has(b, "histogram"))
  IN  countSignFlips([i \in 1..Len(kept) |-> kept[i].histogram])

flipScoreOf(bars) ==
  RMul(normalize(Num(flipRateOf(bars)), Num(0), R(Len(bars), 2)), Num(30))

computeThreat(bars) ==
  LET n == Len(bars)
      bandProximityScore == bandProximityScoreOf(bars[n])
      flipRate == flipRateOf(bars)
      flipScore == flipScoreOf(bars)
      firepower == computeFirepower(bars).value
      volContribution == RMul(RDiv(firepower, Num(100)), Num(20))
      threat == clamp(RRound(RAdd(RAdd(bandProximityScore, flipScore), volContribution)),
                      Num(0), Num(100))
      bandDesc == IF RLt(bandProximityScore, Num(20)) THEN "mid-range"
                  ELSE IF RLt(bandProximityScore, Num(35)) THEN "approaching bands"
                  ELSE "near band extreme"
      flipDesc == IF flipRate <= 5 THEN "stable regime"
                  ELSE IF flipRate <= 12 THEN "some chop" ELSE "high chop"
      volDesc == IF RLt(firepower, Num(40)) THEN "low"
                 ELSE IF RLt(firepower, Num(70)) THEN "moderate" ELSE "elevated"
  IN  IF n < 5 THEN Insufficient
      ELSE [value |-> threat, why |-> <<bandDesc, flipDesc, flipRate, volDesc>>]

(***************************************************************************)
(* Environment builder.  A call either returns a snapshot or throws; the   *)
(* outcome is [thrown, value] with value a sequence of at most one result. *)
(***************************************************************************)
Returned(v) == [thrown |-> "none", value |-> <<v>>]

Threw(e) == [thrown |-> e, value |-> <<>>]

\* Mutant of snapshotOf: a stat that drifts with the time of the call.
snapshotOfDrifting(ticker, bars, t) ==
  [ticker |-> ticker, computedAt |-> t, barsUsed |-> Len(bars),
   hull |-> clamp(RAdd(computeHull(bars).value, Num(t)), Num(0), Num(100)),
   firepower |-> computeFirepower(bars).value,
   sensors |-> computeSensors(bars).value,
   fuel |-> computeFuel(bars).value,
   threat |-> computeThreat(bars).value,
   why |-> [hull |-> computeHull(bars).why,
            firepower |-> computeFirepower(bars).why,
            sensors |-> computeSensors(bars).why,
            fuel |-> computeFuel(bars).why,
            threat |-> computeThreat(bars).why]]

\* The EnvironmentSnapshot built from the provider's bars at clock time t.
snapshotOf(ticker, bars, t) ==
  LET latest == bars[Len(bars)]
  IN  [ticker |-> ticker,
       computedAt |-> t,
       barsUsed |-> Len(bars),
       hull |-> computeHull(bars).value,
       firepower |-> computeFirepower(bars).value,
       sensors |-> computeSensors(bars).value,
       fuel |-> computeFuel(bars).value,
       threat |-> computeThreat(bars).value,
       why |-> [hull |-> computeHull(bars).why,
                firepower |-> computeFirepower(bars).why,
                sensors |-> computeSensors(bars).why,
                fuel |-> computeFuel(bars).why,
                threat |-> computeThreat(bars).why],
       latestBar |-> [f \in {"time", "close", "volume"} \cap DOMAIN latest |-> latest[f]]]

\* Mutant of computeEnvironment: the length check is forgotten.
computeEnvironmentUnchecked(ticker, bars, t) == Returned(snapshotOf(ticker, bars, t))

computeEnvironment(ticker, bars, t) ==
  IF Len(bars) < 5 THEN Threw("Insufficient data")
  ELSE Returned(snapshotOf(ticker, bars, t))

(***************************************************************************)
(* Mission catalog and recommendation engine                               *)
(***************************************************************************)
MISSION_TYPES ==
  [RECON |-> [id |-> "RECON", name |-> "RECON SWEEP", icon |-> "satellite",
              bettingOn |-> "Information quality and timing",
              durationBands |-> <<"45m", "4H", "1D">>],
   CARGO |-> [id |-> "CARGO", name |-> "CARGO RUN", icon |-> "package",
              bettingOn |-> "Time passage without adverse movement",
              durationBands |-> <<"1D", "1W", "2W">>],
   ESCORT |-> [id |-> "ESCORT", name |-> "ESCORT FORMATION", icon |-> "shield",
               bettingOn |-> "Defined risk/reward within a range",
               durationBands |-> <<"1W", "2W", "1M">>],
   STRIKE |-> [id |-> "STRIKE", name |-> "DEEP SPACE STRIKE", icon |-> "swords",
               bettingOn |-> "Large directional movement",
               durationBands |-> <<"1W", "2W", "1M">>],
   HARVEST |-> [id |-> "HARVEST", name |-> "HARVEST OPERATION", icon |-> "sheaf",
                bettingOn |-> "Price staying within a defined range",
                durationBands |-> <<"45m", "1D", "1W">>]]

\* The keys of MISSION_TYPES in Object.entries order (insertion order).
CatalogOrder == <<"RECON", "CARGO", "ESCORT", "STRIKE", "HARVEST">>

CatalogIds == {CatalogOrder[i] : i \in 1..Len(CatalogOrder)}

\* Mutant of riskStars: the risk score on a scale of 25 points per star.
riskStarsScaled(risk, high, low) == RRound(RDiv(risk, Num(25)))[1]

\* risk > high ? 3 : risk > low ? 2 : 1
riskStars(risk, high, low) == IF RLt(high, risk) THEN 3 ELSE IF RLt(low, risk) THEN 2 ELSE 1

\* Mutant of reconDifficulty: the Threat tier alone, Sensors ignored.
reconDifficultyThreatOnly(t, s) ==
  IF RLt(Num(60), t) THEN 3 ELSE IF RLt(Num(35), t) THEN 2 ELSE 1

\* RECON: the Threat tier, eased by strong Sensors and worsened by weak ones.
reconDifficulty(t, s) ==
  LET stars0 == IF RLt(Num(60), t) THEN 3 ELSE IF RLt(Num(35), t) THEN 2 ELSE 1
      stars1 == IF RLe(Num(70), s) /\ stars0 > 1 THEN stars0 - 1 ELSE stars0
  IN  IF RLe(s, Num(35)) /\ stars1 < 3 THEN stars1 + 1 ELSE stars1

\* Mutant of computeDifficulty: every archetype gets the Sensors adjustment.
computeDifficultySensorsEverywhere(missionType, e) ==
  reconDifficulty(e.threat, e.sensors)

computeDifficulty(missionType, e) ==
  LET t == e.threat
      f == e.fuel
      fp == e.firepower
      s == e.sensors
      cargoRisk == RAdd(RMul(t, R(1, 2)), RMul(RSub(Num(100), f), R(1, 2)))
      harvestRisk == RAdd(RMul(fp, R(1, 2)), RMul(t, R(1, 2)))
  IN  CASE missionType = "RECON" -> reconDifficulty(t, s)
        [] missionType = "CARGO" ->
             riskStars(cargoRisk, Num(60), Num(35))
        [] missionType = "ESCORT" ->
             IF RLt(Num(70), t) \/ RLt(t, Num(20)) THEN 2 ELSE 1
        [] missionType = "STRIKE" ->
             riskStars(t, Num(65), Num(40))
        [] missionType = "HARVEST" ->
             riskStars(harvestRisk, Num(55), Num(35))
        [] OTHER -> 2

\* a*x + b*y + c*z
Weighted3(a, x, b, y, c, z) == RAdd(RAdd(RMul(x, a), RMul(y, b)), RMul(z, c))

computeSuitability(missionType, e) ==
  LET hull == e.hull
      firepower == e.firepower
      sensors == e.sensors
      fuel == e.fuel
      calm == RSub(Num(100), e.threat)
      threatPenalty == RMul(RAbs(RSub(e.threat, Num(45))), R(1, 2))
  IN  CASE missionType = "RECON" ->
             Weighted3(R(5, 10), sensors, R(3, 10), calm, R(2, 10), fuel)
        [] missionType = "CARGO" ->
             Weighted3(R(35, 100), hull, R(35, 100), fuel, R(3, 10), calm)
        [] missionType = "ESCORT" ->
             RAdd(RAdd(RMul(hull, R(5, 10)), RSub(Num(50), threatPenalty)),
                  RMul(sensors, R(2, 10)))
        [] missionType = "STRIKE" ->
             Weighted3(R(5, 10), firepower, R(3, 10), hull, R(2, 10), calm)
        [] missionType = "HARVEST" ->
             Weighted3(R(4, 10), RSub(Num(100), firepower), R(4, 10), calm, R(2, 10), sensors)
        [] OTHER -> Num(50)

generateWhyNow(missionType, e) ==
  LET hull == e.hull
      firepower == e.firepower
      sensors == e.sensors
      fuel == e.fuel
      threat == e.threat
  IN  CASE missionType = "RECON" ->
             IF RLe(Num(60), sensors) THEN "Flow signals are clear"
             ELSE IF RLt(threat, Num(40)) THEN "Low threat environment allows for safe scouting"
             ELSE "Standard conditions for sector reconnaissance"
        [] missionType = "CARGO" ->
             IF RLe(Num(60), hull) /\ RLe(Num(60), fuel)
             THEN "Stable trend with high fuel reserves"
             ELSE IF RLt(threat, Num(35)) THEN "Calm sector reduces journey risk"
             ELSE "Conditions acceptable for cargo operations"
        [] missionType = "ESCORT" ->
             IF RLe(Num(30), threat) /\ RLe(threat, Num(60)) THEN "Moderate threat level"
             ELSE IF RLe(Num(55), hull) THEN "Solid hull integrity supports structured positioning"
             ELSE "Standard escort formation conditions"
        [] missionType = "STRIKE" ->
             IF RLe(Num(65), firepower) THEN "High volatility provides thrust"
             ELSE IF RLe(Num(60), hull) /\ RLe(Num(50), firepower)
             THEN "Clear trend direction with adequate firepower"
             ELSE "Conditions support tactical strike operations"
        [] missionType = "HARVEST" ->
             IF RLe(firepower, Num(40)) /\ RLe(threat, Num(40))
             THEN "Low volatility, low threat"
             ELSE IF RLe(Num(55), sensors) THEN "Clear flow signals help identify range boundaries"
             ELSE "Range conditions may support premium collection"
        [] OTHER -> "Standard operating conditions"

\* Mutant of suitabilityOf: the rounded value is capped at 100.
suitabilityCapped(raw) == RMin(Num(100), RRound(raw))

\* The suitability field of an entry whose unrounded suitability is raw.
suitabilityOf(raw) == RRound(raw)

\* The recommended flag of an entry whose unrounded suitability is raw.
recommendedOf(raw) == RLe(Num(55), raw)

\* The entry generateRecommendations pushes for catalog key key.
recommendationOf(key, e) ==
  [type |-> key] @@ MISSION_TYPES[key]
    @@ [suitability |-> suitabilityOf(computeSuitability(key, e)),
        difficulty |-> computeDifficulty(key, e),
        whyNow |-> generateWhyNow(key, e),
        recommended |-> recommendedOf(computeSuitability(key, e))]

\* Mutant of sortsBefore: the comparator is a.suitability - b.suitability.
sortsBeforeAscending(a, b) == RLt(RSub(a.suitability, b.suitability), Num(0))

\* The comparator (a, b) => b.suitability - a.suitability is negative: a sorts
\* before b.
sortsBefore(a, b) == RLt(RSub(b.suitability, a.suitability), Num(0))

\* Mutant of insertSorted: x goes in front of the entries it ties with.
RECURSIVE insertBeforeTies(_, _)
insertBeforeTies(x, s) ==
  IF s = <<>> THEN <<x>>
  ELSE IF ~sortsBefore(s[1], x) THEN <<x>> \o s
  ELSE <<s[1]>> \o insertBeforeTies(x, Tail(s))

\* x placed into the sorted list s behind every entry it does not sort before.
RECURSIVE insertSorted(_, _)
insertSorted(x, s) ==
  IF s = <<>> THEN <<x>>
  ELSE IF sortsBefore(x, s[1]) THEN <<x>> \o s
  ELSE <<s[1]>> \o insertSorted(x, Tail(s))

\* Array.prototype.sort: a stable sort, as an insertion sort from the left.
RECURSIVE sortRecommendations(_)
sortRecommendations(list) ==
  IF list = <<>> THEN <<>>
  ELSE insertSorted(list[Len(list)], sortRecommendations(SubSeq(list, 1, Len(list) - 1)))

generateRecommendations(e) ==
  sortRecommendations([i \in 1..Len(CatalogOrder) |-> recommendationOf(CatalogOrder[i], e)])

(***************************************************************************)
(* Mission lifecycle.  A JavaScript value read back from the store is      *)
(* [t, items]: t is "array" (items its elements), "object", "number" or    *)
(* "null".  null in a field is the empty sequence <<>>.                    *)
(***************************************************************************)
\* Property names every object literal inherits from Object.prototype.
ObjectPrototypeKeys == {"constructor", "toString", "hasOwnProperty", "valueOf"}

\* MISSION_TYPES[type]: <<>> when undefined, else the value found, which for
\* an inherited name is a function (truthy; its name is the only field read
\* that it has).
lookupMissionType(type) ==
  IF type \in CatalogIds THEN <<MISSION_TYPES[type]>>
  ELSE IF type \in ObjectPrototypeKeys
       THEN <<[name |-> IF type = "constructor" THEN "Object" ELSE type]>>
       ELSE <<>>

\* getMissionType(type): MISSION_TYPES[type] || null, null being <<>>.
getMissionType(type) == lookupMissionType(type)

\* getAllMissionTypes(): Object.values(MISSION_TYPES)
getAllMissionTypes == [i \in 1..Len(CatalogOrder) |-> MISSION_TYPES[CatalogOrder[i]]]

\* ticker.toUpperCase()
toUpperCase(ticker) == IF ticker = "rklb" THEN "RKLB" ELSE ticker

\* x is truthy, for a number.
Truthy(x) == x # Num(0) /\ ~isNaN(x)

\* generateMissionId(): the clock in base 36 and a random suffix.
generateMissionId(t, rnd) == <<"MSN", t, rnd>>

\* options.difficulty || 2
difficultyOf(options) ==
  IF Has(options, "difficulty") /\ Truthy(options.difficulty)
  THEN options.difficulty ELSE Num(2)

\* options.duration || { unit: '1D', targetBars: 32 }
durationOf(options) ==
  IF Has(options, "duration") THEN options.duration
  ELSE [unit |-> "1D", targetBars |-> Num(32)]

\* Mutant of initialLog: the log starts empty.
initialLogEmpty(t) == <<>>

\* The log a new mission starts with.
initialLog(t) == <<[time |-> t, event |-> "Mission created", type |-> "system"]>>

\* The Mission createMission builds from the catalog entry missionType.
missionOf(ticker, type, options, missionType, t, rnd) ==
  [id |-> generateMissionId(t, rnd),
   createdAt |-> t,
   ticker |-> toUpperCase(ticker),
   type |-> type,
   typeName |-> missionType.name,
   difficulty |-> difficultyOf(options),
   duration |-> durationOf(options),
   thesis |-> [notes |-> IF Has(options, "notes") THEN options.notes ELSE ""]
                @@ (IF Has(options, "thesis") THEN "primary" :> options.thesis
                    ELSE Field("primary", IF Has(missionType, "bettingOn")
                                          THEN <<missionType.bettingOn>> ELSE <<>>)),
   env |-> IF Has(options, "env") THEN <<options.env>> ELSE <<>>,
   status |-> "PLANNING",
   startedAt |-> <<>>,
   completedAt |-> <<>>,
   outcome |-> <<>>,
   log |-> initialLog(t)]
    @@ Field("icon", IF Has(missionType, "icon") THEN <<missionType.icon>> ELSE <<>>)

createMission(ticker, type, options, t, rnd) ==
  IF lookupMissionType(type) = <<>> THEN Threw("Unknown mission type")
  ELSE Returned(missionOf(ticker, type, options, lookupMissionType(type)[1], t, rnd))

EmptyArray == [t |-> "array", items |-> <<>>]

ArrayOf(items) == [t |-> "array", items |-> items]

\* A number as JSON.stringify writes it and JSON.parse reads it back: NaN
\* and the infinities become null.
jsonNumber(x) == IF x = <<>> \/ x[2] = 0 THEN <<>> ELSE x

\* A mission after JSON.stringify and JSON.parse.
jsonMission(m) ==
  [f \in DOMAIN m |->
     IF f = "difficulty" THEN jsonNumber(m[f])
     ELSE IF f = "env" /\ m[f] # <<>>
          THEN <<[k \in DOMAIN m.env[1] |->
                    IF k = "ticker" THEN m.env[1][k] ELSE jsonNumber(m.env[1][k])]>>
          ELSE m[f]]

\* Mutant of stringify: the collection is written in reverse order.
stringifyReversed(missions) ==
  [kind |-> "json",
   json |-> IF missions.t = "array"
            THEN ArrayOf([i \in 1..Len(missions.items) |->
                            jsonMission(missions.items[Len(missions.items) + 1 - i])])
            ELSE missions]

\* The item JSON.stringify(missions) leaves in the store.
stringify(missions) ==
  [kind |-> "json",
   json |-> IF missions.t = "array"
            THEN ArrayOf([i \in 1..Len(missions.items) |-> jsonMission(missions.items[i])])
            ELSE missions]

\* loadMissions(): the outcome of reading item; readFails is getItem throwing.
loadMissions(item, readFails) ==
  IF readFails THEN Returned(EmptyArray)
  ELSE IF item.kind \in {"null", "empty"} THEN Returned(EmptyArray)
  ELSE IF item.kind = "garbage" THEN Returned(EmptyArray)
  ELSE Returned(item.json)

\* saveMissions(missions): the item afterwards; writeFails is setItem throwing.
saveMissions(item, missions, writeFails) ==
  IF writeFails THEN item ELSE stringify(missions)

\* The index of the first mission with the given id, 0 when there is none.
findIndex(items, missionId) ==
  LET hits == {i \in 1..Len(items) : items[i].id = missionId}
  IN  IF hits = {} THEN 0 ELSE CHOOSE i \in hits : \A j \in hits : i <= j

\* Mutant of pushLog: the entry is put first (unshift).
pushLogFront(items, i, entry) == [items EXCEPT ![i].log = <<entry>> \o @]

\* mission.log.push(entry) on the mission at index i.
pushLog(items, i, entry) == [items EXCEPT ![i].log = Append(@, entry)]

\* addMissionLog(missionId, event, type): [thrown, item, wrote], the error
\* reaching the caller, the store item afterwards, and whether setItem stored
\* a value.
addMissionLog(item, missionId, event, type, t, readFails, writeFails) ==
  LET missions == loadMissions(item, readFails).value[1]
      i == findIndex(missions.items, missionId)
      entry == [time |-> t, event |-> event, type |-> type]
  IN  IF missions.t # "array"
      THEN [thrown |-> "TypeError", item |-> item, wrote |-> FALSE]
      ELSE IF i = 0 THEN [thrown |-> "none", item |-> item, wrote |-> FALSE]
      ELSE IF ~Has(missions.items[i], "log")
      THEN [thrown |-> "TypeError", item |-> item, wrote |-> FALSE]
      ELSE [thrown |-> "none",
            item |-> saveMissions(item, ArrayOf(pushLog(missions.items, i, entry)),
                                  writeFails),
            wrote |-> ~writeFails]

\* Mutant of finishAddMissionLog: the collection is read again before the push.
finishAddMissionLogReloading(loaded, current, missionId, event, type, t) ==
  addMissionLog(current, missionId, event, type, t, FALSE, FALSE)

\* The rest of addMissionLog for a caller whose loadMissions() read the item
\* loaded while the store now holds current: find, push and save work on the
\* caller's own copy.
finishAddMissionLog(loaded, current, missionId, event, type, t) ==
  addMissionLog(loaded, missionId, event, type, t, FALSE, FALSE)

(***************************************************************************)
(* Bar series the Bar Series Provider may return.  Prices are rationals;   *)
(* each optional column follows one of a few shapes, named by a kind.      *)
(***************************************************************************)
MinBars == 3

MaxBars == 6

KreKinds == {"none", "slow", "fast", "flat", "gappy", "nanmid"}

kreAt(kind, i) ==
  CASE kind = "none" -> <<>>
    [] kind = "slow" -> <<R(100 + i, 100)>>
    [] kind = "fast" -> <<R(10 + i, 10)>>
    [] kind = "flat" -> <<Num(1)>>
    [] kind = "gappy" -> IF i % 2 = 0 THEN <<>> ELSE <<R(100 + i, 100)>>
    [] kind = "nanmid" -> IF i = 2 THEN <<NaN>> ELSE <<R(100 + i, 100)>>

CloseKinds == {"above", "zigzag", "onkre", "zerolast"}

closeAt(kind, i, n) ==
  CASE kind = "above" -> Num(2)
    [] kind = "zigzag" -> IF i % 2 = 0 THEN R(5, 2) ELSE R(1, 2)
    [] kind = "onkre" -> Num(1)
    [] kind = "zerolast" -> IF i = n THEN Num(0) ELSE Num(1)

G200Kinds == {"none", "atclose", "far", "oldfar", "mixed"}

g200At(kind, i, n, close) ==
  CASE kind = "none" -> <<>>
    [] kind = "atclose" -> <<close>>
    [] kind = "far" -> <<Num(3)>>
    [] kind = "oldfar" -> IF i = 1 THEN <<Num(3)>> ELSE <<>>
    [] kind = "mixed" -> IF i = n THEN <<NaN>>
                         ELSE IF i = n - 1 THEN <<R(99, 50)>>
                         ELSE IF i = 1 THEN <<Num(3)>> ELSE <<>>

SignalKinds == {"none", "buy2", "selllast", "zeros", "nanlast"}

buyAt(kind, i, n) ==
  CASE kind = "buy2" -> IF i = 2 THEN <<Num(1)>> ELSE <<>>
    [] kind = "zeros" -> <<Num(0)>>
    [] kind = "nanlast" -> IF i = n THEN <<NaN>> ELSE <<>>
    [] OTHER -> <<>>

sellAt(kind, i, n) ==
  CASE kind = "selllast" -> IF i = n THEN <<Num(1)>> ELSE <<>>
    [] kind = "zeros" -> <<Num(0)>>
    [] OTHER -> <<>>

\* A series that varies the trend fields: close, kernelRegression, G200, buy, sell.
TrendBars(n, kre, cls, g, sig) ==
  [i \in 1..n |->
     [time |-> Num(i), close |-> closeAt(cls, i, n)]
       @@ Field("kernelRegression", kreAt(kre, i))
       @@ Field("G200", g200At(g, i, n, closeAt(cls, i, n)))
       @@ Field("buy", buyAt(sig, i, n))
       @@ Field("sell", sellAt(sig, i, n))]

RangeKinds == {"none", "narrow", "mid", "wide", "nanhigh"}

highAt(kind, i) ==
  CASE kind = "none" -> <<>>
    [] kind = "narrow" -> <<R(101, 100)>>
    [] kind = "mid" -> <<R(103, 100)>>
    [] kind = "wide" -> <<R(11, 10)>>
    [] kind = "nanhigh" -> IF i = 1 THEN <<NaN>> ELSE <<R(103, 100)>>

lowAt(kind, i) == IF kind = "none" THEN <<>> ELSE <<Num(1)>>

HistKinds == {"none", "zero", "pos", "alt", "nanmix"}

histogramAt(kind, i) ==
  CASE kind = "none" -> <<>>
    [] kind = "zero" -> <<Num(0)>>
    [] kind = "pos" -> <<R(15, 100)>>
    [] kind = "alt" -> IF i % 2 = 0 THEN <<R(-4, 10)>> ELSE <<R(4, 10)>>
    [] kind = "nanmix" -> IF i % 2 = 0 THEN <<NaN>> ELSE <<R(15, 100)>>

VolumeKinds == {"none", "eq", "above", "below", "mazero", "nanvol"}

volumeAt(kind, i) ==
  CASE kind = "none" -> <<>>
    [] kind = "above" -> <<Num(1500)>>
    [] kind = "below" -> <<Num(500)>>
    [] kind = "nanvol" -> IF i = 1 THEN <<NaN>> ELSE <<Num(1500)>>
    [] OTHER -> <<Num(1000)>>

volumeMAAt(kind, i) ==
  CASE kind = "none" -> <<>>
    [] kind = "mazero" -> <<Num(0)>>
    [] OTHER -> <<Num(1000)>>

BandKinds == {"none", "single", "mid", "edge", "outside", "nanband"}

\* The band levels of a bar: a record over the band keys that are present.
bandsAt(kind) ==
  CASE kind = "none" -> <<>>
    [] kind = "single" -> [A1 |-> Num(1)]
    [] kind = "mid" -> [A1 |-> R(1, 2), F5 |-> R(3, 2)]
    [] kind = "edge" -> [A1 |-> Num(1), C3 |-> R(3, 2), F5 |-> Num(2)]
    [] kind = "outside" -> [A1 |-> Num(2), F5 |-> Num(3)]
    [] kind = "nanband" -> [A1 |-> NaN, C3 |-> R(3, 4), F5 |-> R(3, 2)]

\* A series that varies the volatility and flow fields at a constant close of 1.
FlowBars(n, rng, hist, vol, band) ==
  [i \in 1..n |->
     [time |-> Num(i), close |-> Num(1)]
       @@ Field("high", highAt(rng, i))
       @@ Field("low", lowAt(rng, i))
       @@ Field("histogram", histogramAt(hist, i))
       @@ Field("volume", volumeAt(vol, i))
       @@ Field("volumeMA", volumeMAAt(vol, i))
       @@ bandsAt(band)]

BarSeries ==
  UNION {
    {TrendBars(n, kre, cls, g, "none") :
       kre \in KreKinds, cls \in CloseKinds, g \in G200Kinds}
    \cup
    {TrendBars(n, kre, cls, "none", sig) :
       kre \in KreKinds, cls \in CloseKinds, sig \in SignalKinds}
    \cup
    {FlowBars(n, rng, hist, "none", band) :
       rng \in RangeKinds, hist \in HistKinds, band \in BandKinds}
    \cup
    {FlowBars(n, "none", hist, vol, "none") :
       hist \in {"none", "zero"}, vol \in VolumeKinds}
    : n \in MinBars..MaxBars }

Tickers == {"RKLB"}

(***************************************************************************)
(* State                                                                   *)
(***************************************************************************)
VARIABLES
  bars,      \* the series IndicatorLoader.getRecentBars resolves to
  out,       \* the last stat computator call: [fn, thrown, value]
  env,       \* the last computeEnvironment outcome: [thrown, value]
  prevEnv,   \* the computeEnvironment outcome before that
  now,       \* the clock: ticks of new Date()
  recs,      \* the last generateRecommendations result: <<>> or <<list>>
  prevRecs,  \* the generateRecommendations result before that
  storage,   \* the localStorage item under STORAGE_KEY
  held,      \* the Mission the caller holds from createMission: <<>> or <<m>>
  call,      \* the last lifecycle call: [op, arg, thrown, value]
  writers,   \* the callers inside addMissionLog, and what they have saved
  fetches,   \* the computeEnvironment calls in flight and the provider's bars
  brief,     \* the ShipBrief dialog (src/unnamed/part_001)
  nav        \* the CockpitNav controller (src/unnamed/part_000)

statVars == <<bars, out>>

envVars == <<env, prevEnv, now>>

recVars == <<recs, prevRecs>>

missionVars == <<storage, held, call, writers>>

sideVars == <<fetches, brief, nav>>

vars ==
  <<bars, out, env, prevEnv, now, recs, prevRecs, storage, held, call, writers,
    fetches, brief, nav>>

NoCall == [thrown |-> "none", value |-> <<>>]

\* The outcome of calling stat computator fn, which returned res.
StatCall(fn, res) == [fn |-> fn, thrown |-> "none", value |-> <<res>>]

NoStatCall == [fn |-> "none", thrown |-> "none", value |-> <<>>]

NoLifecycleCall == [op |-> "none", arg |-> <<>>, thrown |-> "none", value |-> <<>>]

\* localStorage.getItem(STORAGE_KEY) === null
NoItem == [kind |-> "null", json |-> [t |-> "null", items |-> <<>>]]

\* The browsing contexts that share the localStorage item.
Writers == {"A", "B"}

NoTarget == generateMissionId(0, "NONE")

\* No caller is inside addMissionLog and nothing has been saved.
IdleWriters ==
  [pc |-> [w \in Writers |-> "idle"],
   loaded |-> [w \in Writers |-> NoItem],
   target |-> [w \in Writers |-> NoTarget],
   saved |-> <<>>,
   overlapped |-> FALSE]

\* No computeEnvironment call is in flight: no provider data, no caller, and
\* no call started or resolved so far.
NoFetches == [feed |-> <<>>, calls |-> <<>>, started |-> <<>>, resolved |-> <<>>]

\* The ShipBrief module as loaded: no dialog element, nothing visible, no
\* timer.  A timer handle is 0 for null, else the id setTimeout returned;
\* pending holds the timers the browser has not yet fired or cleared.
\* History fields: gen names the open() whose callbacks are current (the id
\* of its boot timer, 0 once close() is called), lastCall and lastOpened the
\* last open/close call, closeEvents the shipbrief:close events since the
\* last shipbrief:open, hideCancelled whether the last open() cleared a
\* pending hide, ran the timer callback the last step ran.
BriefLoaded ==
  [dialogEl |-> FALSE, isVisible |-> FALSE, currentTicker |-> <<>>,
   bootTimer |-> 0, barTimer |-> 0, focusTimer |-> 0, closeTimer |-> 0,
   globalEsc |-> FALSE, hidden |-> TRUE,
   pending |-> {}, nextId |-> 1,
   gen |-> 0, lastCall |-> "none", lastOpened |-> <<>>,
   closeEvents |-> 0, hideCancelled |-> FALSE, ran |-> <<>>]

\* The CockpitNav object as constructed, before init().
NavConstructed ==
  [initialized |-> FALSE, currentPanel |-> "hangar", selectedShip |-> "RKLB",
   currentOpponent |-> <<>>, arena |-> <<>>]

\* The components a specification does not exercise stay as loaded.
SideIdle ==
  /\ fetches = NoFetches
  /\ brief = BriefLoaded
  /\ nav = NavConstructed

MaxClock == 2

InitStats ==
  /\ bars \in BarSeries
  /\ out = NoStatCall
  /\ env = NoCall
  /\ prevEnv = NoCall
  /\ now = 0
  /\ recs = <<>>
  /\ prevRecs = <<>>
  /\ storage = NoItem
  /\ held = <<>>
  /\ call = NoLifecycleCall
  /\ writers = IdleWriters
  /\ SideIdle

ComputeHull ==
  /\ out' = StatCall("computeHull", computeHull(bars))
  /\ UNCHANGED <<sideVars, bars, envVars, recVars, missionVars>>

ComputeFirepower ==
  /\ out' = StatCall("computeFirepower", computeFirepower(bars))
  /\ UNCHANGED <<sideVars, bars, envVars, recVars, missionVars>>

ComputeSensors ==
  /\ out' = StatCall("computeSensors", computeSensors(bars))
  /\ UNCHANGED <<sideVars, bars, envVars, recVars, missionVars>>

ComputeFuel ==
  /\ out' = StatCall("computeFuel", computeFuel(bars))
  /\ UNCHANGED <<sideVars, bars, envVars, recVars, missionVars>>

ComputeThreat ==
  /\ out' = StatCall("computeThreat", computeThreat(bars))
  /\ UNCHANGED <<sideVars, bars, envVars, recVars, missionVars>>

ComputeEnvironment ==
  /\ now < MaxClock
  /\ \E ticker \in Tickers : env' = computeEnvironment(ticker, bars, now)
  /\ prevEnv' = env
  /\ now' = now + 1
  /\ UNCHANGED <<sideVars, statVars, recVars, missionVars>>

NextStats ==
  \/ ComputeHull
  \/ ComputeFirepower
  \/ ComputeSensors
  \/ ComputeFuel
  \/ ComputeThreat
  \/ ComputeEnvironment

SpecStats == InitStats /\ [][NextStats]_vars

(***************************************************************************)
(* Claims about the stat computators and the environment builder           *)
(***************************************************************************)
\* A stat value that is an integer between 0 and 100.
IsStat(v) == v[2] = 1 /\ 0 <= v[1] /\ v[1] <= 100

StatNames == {"hull", "firepower", "sensors", "fuel", "threat"}

\* C1: for every bar series of at least 5 bars, the value returned by each
\* stat computator is an integer in [0,100], and so are the five stats of the
\* snapshot computeEnvironment returns.
C1_StatsAreIntegersInRange ==
  Len(bars) >= 5 =>
    /\ out.fn # "none" => IsStat(out.value[1].value)
    /\ env.value # <<>> => \A k \in StatNames : IsStat(env.value[1][k])

\* C2 as stated: for every bar series shorter than 5 bars, each stat
\* computator and computeEnvironment fail with the insufficient-data error
\* and return nothing.
C2_EveryComputationFails ==
  Len(bars) < 5 =>
    /\ out.fn # "none" => out.thrown = "Insufficient data" /\ out.value = <<>>
    /\ now > 0 => env.thrown = "Insufficient data" /\ env.value = <<>>

\* C2 amended: for every bar series shorter than 5 bars, computeEnvironment
\* fails with the insufficient-data error and returns no snapshot, while each
\* stat computator called on its own returns the neutral value 50 with the
\* rationale 'Insufficient data' and throws nothing.
C2_EnvironmentFailsStatsNeutral ==
  Len(bars) < 5 =>
    /\ now > 0 => env.thrown = "Insufficient data" /\ env.value = <<>>
    /\ out.fn # "none" =>
         /\ out.thrown = "none"
         /\ out.value = <<[value |-> Num(50), why |-> <<"Insufficient data">>]>>

C2_Witness ==
  /\ Len(bars) < 5
  /\ now > 0
  /\ env.thrown = "Insufficient data"
  /\ out.fn = "computeThreat"
  /\ out.value[1].value = Num(50)

\* The valid kernelRegression values of the series, in bar order.
kreSeriesOf(bars_) ==
  LET kept == SelectSeq(bars_, LAMBDA b : HasNum(b, "kernelRegression"))
  IN  [i \in 1..Len(kept) |-> kept[i].kernelRegression]

\* The kernelRegression values rise strictly and close - kernelRegression
\* never changes sign.
RisingCalmTrend ==
  LET kre == kreSeriesOf(bars)
  IN  /\ Len(bars) >= 5
      /\ Len(kre) >= 2
      /\ \A i \in 2..Len(kre) : RLt(kre[i - 1], kre[i])
      /\ chopFlipsOf(bars) = 0

\* C7 as stated: a series of at least 5 bars with rising kernelRegression and
\* zero sign flips of close - kernelRegression gets a Hull of at least 70.
C7_RisingTrendHullAtLeast70 ==
  (out.fn = "computeHull" /\ RisingCalmTrend) =>
    RLe(Num(70), out.value[1].value)

\* C7 amended: such a series gets a Hull of at least 40 (base 40, a positive
\* slope score, an anchor score that is never negative, no chop penalty), and
\* of at least 70 when the regression slope is at least 0.06 per bar; the one
\* exception is a latest close of 0, where the anchor distance can be 0/0 and
\* the Hull is then NaN.
C7_RisingTrendHullAtLeast40 ==
  (out.fn = "computeHull" /\ RisingCalmTrend) =>
    LET hull == out.value[1].value
    IN  \/ isNaN(hull) /\ bars[Len(bars)].close = Num(0)
        \/ /\ IsStat(hull)
           /\ hull[1] >= 40
           /\ RLe(R(6, 100), hullSlope(bars)) => hull[1] >= 70

C7_Witness ==
  /\ out.fn = "computeHull"
  /\ RisingCalmTrend
  /\ out.value[1].value = Num(45)
  /\ RLt(hullSlope(bars), R(6, 100))

\* The indicator fields of a bar that may be missing.
OptionalFields ==
  {"kernelRegression", "G200", "high", "low", "histogram", "volume", "volumeMA",
   "buy", "sell"} \cup {bandKeys[i] : i \in 1..Len(bandKeys)}

\* The series with every NaN optional field taken out of its bar.
NaNMadeAbsent(bars_) ==
  [i \in 1..Len(bars_) |->
     [f \in {g \in DOMAIN bars_[i] : ~(g \in OptionalFields /\ isNaN(bars_[i][g]))} |->
        bars_[i][f]]]

\* The result of the stat computator named fn.
StatOf(fn, bars_) ==
  CASE fn = "computeHull" -> computeHull(bars_)
    [] fn = "computeFirepower" -> computeFirepower(bars_)
    [] fn = "computeSensors" -> computeSensors(bars_)
    [] fn = "computeFuel" -> computeFuel(bars_)
    [] fn = "computeThreat" -> computeThreat(bars_)

\* C14: for every series of at least 5 bars, no stat computator throws, and
\* its value and rationale are those it gives for the series in which every
\* NaN optional field is absent instead.
C14_NaNFieldSkippedLikeAbsent ==
  (Len(bars) >= 5 /\ out.fn # "none") =>
    /\ out.thrown = "none"
    /\ out.value = <<StatOf(out.fn, NaNMadeAbsent(bars))>>

\* C25: computeHull anchors on the G200 of the newest bar that has a valid
\* G200; when no bar has one, the anchor distance is 0 and the anchor score
\* is the full 30 for every value of the latest close.
C25_AnchorIsNewestG200OrClose ==
  (Len(bars) >= 5 /\ out.fn = "computeHull") =>
    LET valid == {i \in 1..Len(bars) : HasNum(bars[i], "G200")}
    IN  /\ \A i \in valid :
              (\A j \in valid : j <= i) => latestG200Of(bars) = bars[i].G200
        /\ valid = {} =>
              /\ anchorDistOf(bars) = Num(0)
              /\ anchorScoreOf(bars) = Num(30)

\* C19: for every series of n >= 5 bars the histogram-flip term of
\* computeThreat, normalize(flips, 0, n/2) * 30, lies in [0,30].
C19_FlipTermAtMost30 ==
  (Len(bars) >= 5 /\ out.fn = "computeThreat") =>
    /\ RLe(Num(0), flipScoreOf(bars))
    /\ RLe(flipScoreOf(bars), Num(30))

\* C20: the band-proximity term of computeThreat lies in [0,50] when the
\* latest bar has finite band values with max > min, and is exactly 50 when
\* it has no band value or all its band values are equal.
C20_BandTermAtMost50 ==
  (Len(bars) >= 5 /\ out.fn = "computeThreat") =>
    LET latest == bars[Len(bars)]
        values == bandValuesOf(latest)
        term == bandProximityScoreOf(latest)
    IN  IF Len(values) > 0 /\ RLt(RMinSeq(values), RMaxSeq(values))
        THEN RLe(Num(0), term) /\ RLe(term, Num(50))
        ELSE term = Num(50)

(***************************************************************************)
(* The synthetic scenario: bars with histogram 0, volume equal to volumeMA, *)
(* no buy/sell, no band fields, constant kernelRegression and close equal  *)
(* to G200 on every bar.                                                   *)
(***************************************************************************)
ScenarioLen == 10

ScenarioKre == {R(1, 2), Num(1), Num(3)}

ScenarioCloseKinds == {"one", "two", "zigzag", "zero"}

scenarioCloseAt(kind, i) ==
  CASE kind = "one" -> Num(1)
    [] kind = "two" -> Num(2)
    [] kind = "zigzag" -> IF i % 2 = 0 THEN R(1, 4) ELSE Num(4)
    [] kind = "zero" -> Num(0)

\* (high - low) / close of every bar, in percent; "none" is no high and low.
ScenarioRanges == {<<>>, <<0>>, <<1>>, <<3>>, <<10>>}

ScenarioBars(kre, cls, rng) ==
  [i \in 1..ScenarioLen |->
     LET close == scenarioCloseAt(cls, i)
     IN  [time |-> Num(i), close |-> close, kernelRegression |-> kre, G200 |-> close,
          histogram |-> Num(0), volume |-> Num(1000), volumeMA |-> Num(1000)]
           @@ (IF rng = <<>> THEN <<>>
               ELSE [high |-> RMul(close, R(100 + rng[1], 100)), low |-> close])]

ScenarioSeries ==
  {ScenarioBars(kre, cls, rng) :
     kre \in ScenarioKre, cls \in ScenarioCloseKinds, rng \in ScenarioRanges}

InitScenario ==
  /\ bars \in ScenarioSeries
  /\ out = NoStatCall
  /\ env = NoCall
  /\ prevEnv = NoCall
  /\ now = 0
  /\ recs = <<>>
  /\ prevRecs = <<>>
  /\ storage = NoItem
  /\ held = <<>>
  /\ call = NoLifecycleCall
  /\ writers = IdleWriters
  /\ SideIdle

SpecScenario == InitScenario /\ [][NextStats]_vars

\* The bars are the scenario's.
IsScenario ==
  /\ Len(bars) = ScenarioLen
  /\ \A i \in 1..Len(bars) :
       /\ bars[i].histogram = Num(0)
       /\ bars[i].volume = bars[i].volumeMA
       /\ bars[i].kernelRegression = bars[1].kernelRegression
       /\ bars[i].G200 = bars[i].close
       /\ DOMAIN bars[i] \cap ({"buy", "sell"} \cup {bandKeys[k] : k \in 1..Len(bandKeys)}) = {}

\* C17 as stated: in the scenario computeHull returns approximately 40, the
\* base score.
C17_ScenarioHullAbout40 ==
  (IsScenario /\ out.fn = "computeHull") =>
    LET hull == out.value[1].value
    IN  RLe(Num(35), hull) /\ RLe(hull, Num(45))

\* C17 amended: in the scenario computeHull returns 70 less the chop
\* penalty min(3 * flips, 30), flips being the sign flips of close -
\* kernelRegression: 70 (base 40, anchor score 30, no slope contribution)
\* when close never crosses kernelRegression; with a latest close of 0 the
\* anchor distance is 0/0 and the value is NaN.
C17_ScenarioHullIs70LessChop ==
  (IsScenario /\ out.fn = "computeHull") =>
    LET hull == out.value[1].value
        flips == chopFlipsOf(bars)
    IN  IF bars[Len(bars)].close = Num(0) THEN isNaN(hull)
        ELSE /\ hull = Num(70 - (IF 3 * flips < 30 THEN 3 * flips ELSE 30))
             /\ (\A i \in 1..Len(bars) : bars[i].close = bars[1].close) => hull = Num(70)

C17_Witness ==
  /\ IsScenario
  /\ out.fn = "computeHull"
  /\ out.value[1].value = Num(70)
  /\ bars[ScenarioLen].close = Num(2)
  /\ bars[ScenarioLen].kernelRegression = Num(3)

StatGrid == {0, 35, 45, 49, 70, 100}

\* An environment with the given five stats.
EnvOf(h, fp, s, f, t) ==
  [ticker |-> "RKLB", hull |-> Num(h), firepower |-> Num(fp), sensors |-> Num(s),
   fuel |-> Num(f), threat |-> Num(t)]

InitRec ==
  /\ bars = <<>>
  /\ out = NoStatCall
  /\ \E h, fp, s, f, t \in StatGrid : env = Returned(EnvOf(h, fp, s, f, t))
  /\ prevEnv = NoCall
  /\ now = 0
  /\ recs = <<>>
  /\ prevRecs = <<>>
  /\ storage = NoItem
  /\ held = <<>>
  /\ call = NoLifecycleCall
  /\ writers = IdleWriters
  /\ SideIdle

\* generateRecommendations(env) on the snapshot the caller holds.
GenerateRecommendations ==
  /\ env.value # <<>>
  /\ recs' = <<generateRecommendations(env.value[1])>>
  /\ prevRecs' = recs
  /\ UNCHANGED <<sideVars, statVars, envVars, missionVars>>

NextRec == GenerateRecommendations

SpecRec == InitRec /\ [][NextRec]_vars

\* The entries of the last generateRecommendations result.
Entries == IF recs = <<>> THEN <<>> ELSE recs[1]

\* C3: in every entry generateRecommendations returns, recommended is true
\* exactly when the entry's suitability field is at least 55.
C3_RecommendedIffSuitabilityAtLeast55 ==
  \A i \in 1..Len(Entries) :
    Entries[i].recommended <=> RLe(Num(55), Entries[i].suitability)

\* C4: generateRecommendations returns exactly 5 entries, one per catalog
\* archetype, each entry's suitability at least the next entry's.
C4_FiveEntriesSortedDescending ==
  recs # <<>> =>
    /\ Len(Entries) = 5
    /\ \A id \in CatalogIds : Cardinality({i \in 1..5 : Entries[i].type = id}) = 1
    /\ \A i \in 1..4 : RLe(Entries[i + 1].suitability, Entries[i].suitability)

C4_Witness ==
  /\ recs # <<>>
  /\ Entries[1].type = "HARVEST"
  /\ Entries[5].type = "RECON"
  /\ RLt(Entries[5].suitability, Entries[1].suitability)

\* The Threat tier of RECON: 1 up to 35, 2 up to 60, 3 above.
ThreatTier(t) == IF t > 60 THEN 3 ELSE IF t > 35 THEN 2 ELSE 1

\* The RECON difficulty of the last generateRecommendations result.
ReconStars == Entries[CHOOSE i \in 1..Len(Entries) : Entries[i].type = "RECON"].difficulty

\* C6: for RECON, Sensors >= 70 lowers the Threat-tier rating by one star but
\* never below 1, Sensors <= 35 raises it by one star but never above 3, and
\* within one Threat tier the rating at any Sensors >= 70 is strictly lower
\* than at any Sensors <= 35, or both are 1.
C6_ReconSensorsAdjustDifficulty ==
  recs # <<>> =>
    LET e == env.value[1]
        tier == ThreatTier(e.threat[1])
        s == e.sensors[1]
    IN  /\ s >= 70 => ReconStars = (IF tier > 1 THEN tier - 1 ELSE 1)
        /\ s <= 35 => ReconStars = (IF tier < 3 THEN tier + 1 ELSE 3)
        /\ s >= 70 =>
             \A t2 \in 0..100, s2 \in 0..35 :
               ThreatTier(t2) = tier =>
                 LET weak == computeDifficulty("RECON", EnvOf(0, 0, s2, 0, t2))
                 IN  ReconStars < weak \/ (ReconStars = 1 /\ weak = 1)

C6_Witness ==
  /\ recs # <<>>
  /\ env.value[1].sensors = Num(70)
  /\ env.value[1].threat = Num(100)
  /\ ReconStars = 2

\* Twenty times the archetype's weighted sum, in integers.
Formula20(type, h, fp, s, f, t) ==
  CASE type = "RECON" -> 10 * s + 6 * (100 - t) + 4 * f
    [] type = "CARGO" -> 7 * h + 7 * f + 6 * (100 - t)
    [] type = "ESCORT" -> 10 * h + 20 * 50 - 10 * Abs(t - 45) + 4 * s
    [] type = "STRIKE" -> 10 * fp + 6 * h + 4 * (100 - t)
    [] type = "HARVEST" -> 8 * (100 - fp) + 8 * (100 - t) + 4 * s

C16_DifficultyIsOneToThree ==
  /\ env.value # <<>> =>
       \A id \in CatalogIds : computeDifficulty(id, env.value[1]) \in {1, 2, 3}
  /\ \A i \in 1..Len(Entries) : Entries[i].difficulty \in {1, 2, 3}

C16_Witness ==
  /\ recs # <<>>
  /\ \E i, j, k \in 1..Len(Entries) :
       /\ Entries[i].type = "CARGO" /\ Entries[i].difficulty = 3
       /\ Entries[j].type = "STRIKE" /\ Entries[j].difficulty = 2
       /\ Entries[k].type = "ESCORT" /\ Entries[k].difficulty = 1

\* The position of an archetype in catalog iteration order.
CatalogIndex(id) == CHOOSE i \in 1..Len(CatalogOrder) : CatalogOrder[i] = id

\* C21: the ranking is stable: two entries of generateRecommendations with
\* equal suitability appear in catalog iteration order (RECON, CARGO, ESCORT,
\* STRIKE, HARVEST).
C21_TiesKeepCatalogOrder ==
  \A i, j \in 1..Len(Entries) :
    (i < j /\ Entries[i].suitability = Entries[j].suitability) =>
      CatalogIndex(Entries[i].type) < CatalogIndex(Entries[j].type)

C21_Witness ==
  /\ recs # <<>>
  /\ \E i \in 1..4 :
       /\ Entries[i].type = "RECON"
       /\ Entries[i + 1].type = "CARGO"
       /\ Entries[i].suitability = Entries[i + 1].suitability
  /\ \E i \in 1..4 : RLt(Entries[i + 1].suitability, Entries[i].suitability)

\* The Sensors values an environment is varied over.
SensorProbes == StatGrid \cup {1, 34, 36, 50, 69, 71, 99}

\* C22: only RECON applies a Sensors adjustment: for CARGO, ESCORT, STRIKE
\* and HARVEST two environments that differ only in sensors get the same
\* difficulty.
C22_SensorsMoveOnlyReconDifficulty ==
  recs # <<>> =>
    \A i \in 1..Len(Entries) :
      Entries[i].type # "RECON" =>
        \A s2 \in SensorProbes :
          computeDifficulty(Entries[i].type, [env.value[1] EXCEPT !.sensors = Num(s2)])
            = Entries[i].difficulty

C22_Witness ==
  /\ recs # <<>>
  /\ env.value[1].sensors = Num(70)
  /\ env.value[1].threat = Num(100)
  /\ ReconStars = 2
  /\ computeDifficulty("RECON", [env.value[1] EXCEPT !.sensors = Num(35)]) = 3
  /\ \E i \in 1..Len(Entries) : Entries[i].type = "HARVEST" /\ Entries[i].difficulty = 3

(***************************************************************************)
(* Mission lifecycle: creation                                             *)
(***************************************************************************)
\* What the store may hold before the first call.
StoredMission(t, rnd) == missionOf("RKLB", "STRIKE", <<>>, MISSION_TYPES["STRIKE"], t, rnd)

StoreInits ==
  { NoItem,
    [kind |-> "empty", json |-> [t |-> "null", items |-> <<>>]],
    [kind |-> "garbage", json |-> [t |-> "null", items |-> <<>>]],
    [kind |-> "json", json |-> [t |-> "null", items |-> <<>>]],
    [kind |-> "json", json |-> [t |-> "object", items |-> <<>>]],
    [kind |-> "json", json |-> EmptyArray],
    [kind |-> "json", json |-> ArrayOf(<<[id |-> generateMissionId(0, "AAAA")]>>)],
    [kind |-> "json", json |-> ArrayOf(<<StoredMission(0, "AAAA"), StoredMission(0, "ZZZZ")>>)] }

TypeInputs == CatalogIds \cup {"WARP", "constructor"}

TickerInputs == {"rklb"}

OptionInputs ==
  { <<>>,
    [difficulty |-> Num(3), duration |-> [unit |-> "1W", targetBars |-> Num(160)]],
    [difficulty |-> Num(0)],
    [thesis |-> "Breakout", notes |-> "watch G200", env |-> EnvOf(70, 49, 36, 35, 100)] }

RandomSuffixes == {"AAAA", "ZZZZ"}

InitCreate ==
  /\ bars = <<>>
  /\ out = NoStatCall
  /\ env = NoCall
  /\ prevEnv = NoCall
  /\ now = 0
  /\ recs = <<>>
  /\ prevRecs = <<>>
  /\ storage \in StoreInits
  /\ held = <<>>
  /\ call = NoLifecycleCall
  /\ writers = IdleWriters
  /\ SideIdle

\* The clock advances.
Tick ==
  /\ now < MaxClock
  /\ now' = now + 1
  /\ UNCHANGED <<sideVars, statVars, env, prevEnv, recVars, missionVars>>

\* Mutant of CreateMissionFrom: the new mission is saved as the collection.
CreateMissionFromSaving(tickers, types, optionSet, suffixes) ==
  \E ticker \in tickers, type \in types, options \in optionSet, rnd \in suffixes :
    LET res == createMission(ticker, type, options, now, rnd)
    IN  /\ call' = [op |-> "createMission",
                    arg |-> <<ticker, type, options>>,
                    thrown |-> res.thrown,
                    value |-> res.value]
        /\ held' = IF res.value = <<>> THEN held ELSE res.value
        /\ storage' = IF res.value = <<>> THEN storage
                      ELSE saveMissions(storage, ArrayOf(res.value), FALSE)
        /\ UNCHANGED <<sideVars, statVars, envVars, recVars, writers>>

\* createMission(ticker, type, options) with inputs from the given sets.
CreateMissionFrom(tickers, types, optionSet, suffixes) ==
  \E ticker \in tickers, type \in types, options \in optionSet, rnd \in suffixes :
    LET res == createMission(ticker, type, options, now, rnd)
    IN  /\ call' = [op |-> "createMission",
                    arg |-> <<ticker, type, options>>,
                    thrown |-> res.thrown,
                    value |-> res.value]
        /\ held' = IF res.value = <<>> THEN held ELSE res.value
        /\ UNCHANGED <<sideVars, statVars, envVars, recVars, storage, writers>>

\* getMissionType(type): <<>> is null.
GetMissionType ==
  \E type \in TypeInputs :
    /\ call' = [op |-> "getMissionType", arg |-> <<type>>,
                thrown |-> "none", value |-> getMissionType(type)]
    /\ UNCHANGED <<sideVars, statVars, envVars, recVars, storage, held, writers>>

GetAllMissionTypes ==
  /\ call' = [op |-> "getAllMissionTypes", arg |-> <<>>,
              thrown |-> "none", value |-> <<getAllMissionTypes>>]
  /\ UNCHANGED <<sideVars, statVars, envVars, recVars, storage, held, writers>>

CreateMission == CreateMissionFrom(TickerInputs, TypeInputs, OptionInputs, {"AAAA"})

NextCreate ==
  \/ CreateMission
  \/ Tick

SpecCreate == InitCreate /\ [][NextCreate]_vars

\* C8: createMission with a type that is not a catalog id fails with the
\* 'unknown mission type' error, returns no Mission, and leaves the persisted
\* collection as it was.
C8_UnknownTypeFails ==
  [][(call'.op = "createMission" /\ call'.arg[2] \notin CatalogIds) =>
       /\ call'.thrown = "Unknown mission type"
       /\ call'.value = <<>>
       /\ storage' = storage]_vars

\* C9: createMission with a catalog type returns a Mission in PLANNING with
\* startedAt, completedAt and outcome null, a log of exactly one 'system'
\* entry 'Mission created', difficulty 2 unless options.difficulty overrides
\* it and duration {unit:'1D', targetBars:32} unless options.duration does.
C9_NewMissionInPlanning ==
  (call.op = "createMission" /\ call.arg[2] \in CatalogIds) =>
    /\ call.thrown = "none"
    /\ Len(call.value) = 1
    /\ LET m == call.value[1]
           options == call.arg[3]
       IN  /\ m.status = "PLANNING"
           /\ m.startedAt = <<>> /\ m.completedAt = <<>> /\ m.outcome = <<>>
           /\ Len(m.log) = 1
           /\ m.log[1].type = "system"
           /\ m.log[1].event = "Mission created"
           /\ ~Has(options, "difficulty") => m.difficulty = Num(2)
           /\ (Has(options, "difficulty") /\ Truthy(options.difficulty)) =>
                m.difficulty = options.difficulty
           /\ m.duration = (IF Has(options, "duration") THEN options.duration
                            ELSE [unit |-> "1D", targetBars |-> Num(32)])

C9_Witness ==
  /\ call.op = "createMission"
  /\ call.arg = <<"rklb", "STRIKE", <<>>>>
  /\ call.value # <<>>
  /\ call.value[1].status = "PLANNING"
  /\ call.value[1].ticker = "RKLB"
  /\ call.value[1].difficulty = Num(2)
  /\ call.value[1].duration.targetBars = Num(32)
  /\ Len(call.value[1].log) = 1

(***************************************************************************)
(* Mission lifecycle: persistence.  The lifecycle calls are synchronous;   *)
(* a behaviour of SpecStore runs within one reading of the clock.          *)
(***************************************************************************)
MaxStored == 2

MaxLog == 3

\* createMission('RKLB', 'STRIKE') by the caller that goes on to save it.
CreateStrikeMission == CreateMissionFrom({"RKLB"}, {"STRIKE"}, {<<>>}, RandomSuffixes)

\* loadMissions(); readFails is localStorage.getItem throwing.
LoadMissions ==
  \E readFails \in BOOLEAN :
    LET res == loadMissions(storage, readFails)
    IN  /\ call' = [op |-> "loadMissions", arg |-> <<readFails>>,
                    thrown |-> res.thrown, value |-> res.value]
        /\ UNCHANGED <<sideVars, statVars, envVars, recVars, storage, held, writers>>

\* The collections the caller passes to saveMissions: an empty one, the
\* held mission alone, or the loaded collection with the held mission pushed.
SaveInputs ==
  LET loaded == loadMissions(storage, FALSE).value[1]
  IN  {EmptyArray}
      \cup (IF held = <<>> THEN {} ELSE {ArrayOf(held)})
      \cup (IF held # <<>> /\ loaded.t = "array" /\ Len(loaded.items) < MaxStored
            THEN {ArrayOf(Append(loaded.items, held[1]))} ELSE {})

\* saveMissions(missions); writeFails is localStorage.setItem throwing.
SaveMissions ==
  \E missions \in SaveInputs, writeFails \in BOOLEAN :
    /\ storage' = saveMissions(storage, missions, writeFails)
    /\ call' = [op |-> "saveMissions", arg |-> <<writeFails>>,
                thrown |-> "none", value |-> <<>>]
    /\ UNCHANGED <<sideVars, statVars, envVars, recVars, held, writers>>

\* The ids a caller may pass to addMissionLog: those in the store, the held
\* mission's, and one that names no mission.
IdInputs ==
  LET loaded == loadMissions(storage, FALSE).value[1]
  IN  {loaded.items[i].id : i \in 1..Len(loaded.items)}
      \cup {held[i].id : i \in 1..Len(held)}
      \cup {generateMissionId(0, "NONE")}

\* The log of the stored mission with this id is shorter than MaxLog.
LogHasRoom(missionId) ==
  LET loaded == loadMissions(storage, FALSE).value[1]
      i == findIndex(loaded.items, missionId)
  IN  i # 0 /\ Has(loaded.items[i], "log") => Len(loaded.items[i].log) < MaxLog

\* addMissionLog(missionId, event, type); type <<>> is the argument omitted.
AddMissionLog ==
  \E missionId \in IdInputs, typeArg \in {<<>>, <<"warning">>},
     readFails \in BOOLEAN, writeFails \in BOOLEAN :
    LET type == IF typeArg = <<>> THEN "info" ELSE typeArg[1]
        res == addMissionLog(storage, missionId, "Entered orbit", type, now,
                             readFails, writeFails)
    IN  /\ LogHasRoom(missionId)
        /\ storage' = res.item
        /\ call' = [op |-> "addMissionLog",
                    arg |-> <<readFails, writeFails, missionId, typeArg>>,
                    thrown |-> res.thrown, value |-> <<>>]
        /\ UNCHANGED <<sideVars, statVars, envVars, recVars, held, writers>>

NextStore ==
  \/ CreateStrikeMission
  \/ LoadMissions
  \/ SaveMissions
  \/ AddMissionLog

SpecStore == InitCreate /\ [][NextStore]_vars

\* The store holds text that does not parse, or parses to something that is
\* not a sequence of Mission records with a log.
Malformed(item) ==
  \/ item.kind = "garbage"
  \/ /\ item.kind = "json"
     /\ \/ item.json.t # "array"
        \/ \E i \in 1..Len(item.json.items) : ~Has(item.json.items[i], "log")

\* C10: no persistence failure reaches the caller of a lifecycle operation:
\* on a read that throws or on malformed data loadMissions yields an empty
\* collection and addMissionLog returns normally; on a write that throws
\* saveMissions and addMissionLog return normally and the store is unchanged.
C10_PersistenceFailuresNeverPropagate ==
  [][/\ call'.op \in {"loadMissions", "saveMissions", "addMissionLog"} =>
          call'.thrown = "none"
     /\ (call'.op = "loadMissions" /\ (call'.arg[1] \/ Malformed(storage))) =>
          call'.value = <<EmptyArray>>
     /\ (call'.op = "saveMissions" /\ call'.arg[1]) => storage' = storage
     /\ (call'.op = "addMissionLog" /\ call'.arg[2]) => storage' = storage]_vars

\* C26: createMission never writes to the store, and addMissionLog with the
\* id of a created mission that no persisted mission carries leaves the store
\* unchanged.
C26_CreateMissionWritesNothing ==
  [][/\ call'.op = "createMission" => storage' = storage
     /\ (/\ call'.op = "addMissionLog"
         /\ held # <<>>
         /\ call'.arg[3] = held[1].id
         /\ \A i \in 1..Len(loadMissions(storage, FALSE).value[1].items) :
              loadMissions(storage, FALSE).value[1].items[i].id # held[1].id)
          => storage' = storage]_vars

C26_Witness ==
  /\ call.op = "addMissionLog"
  /\ call.thrown = "none"
  /\ held # <<>>
  /\ call.arg[3] = held[1].id
  /\ storage.kind = "json"
  /\ storage.json = EmptyArray

\* The collection the store holds, as loadMissions reads it.
Stored(item) == loadMissions(item, FALSE).value[1].items

\* An addMissionLog call just returned; it ran against a working store: both
\* localStorage calls succeeded and the store held well-formed missions.
LogAppendOnWorkingStore ==
  /\ call'.op = "addMissionLog"
  /\ ~call'.arg[1]
  /\ ~call'.arg[2]
  /\ ~Malformed(storage)

\* The type argument of the addMissionLog call, 'info' when omitted.
TypeGiven(c) == IF c.arg[4] = <<>> THEN "info" ELSE c.arg[4][1]

\* C11: under a single writer and a working store, addMissionLog keeps every
\* persisted log entry of every mission at its position, and on an existing
\* mission id lengthens that mission's persisted log by exactly one entry,
\* placed last, carrying the given event and type ('info' when omitted).
C11_LogIsAppendOnly ==
  [][LogAppendOnWorkingStore =>
       LET old == Stored(storage)
           new == Stored(storage')
           k == findIndex(old, call'.arg[3])
       IN  /\ Len(new) = Len(old)
           /\ \A j \in 1..Len(old) :
                 /\ Len(new[j].log) >= Len(old[j].log)
                 /\ SubSeq(new[j].log, 1, Len(old[j].log)) = old[j].log
           /\ k # 0 =>
                 /\ Len(new[k].log) = Len(old[k].log) + 1
                 /\ new[k].log[Len(new[k].log)].event = "Entered orbit"
                 /\ new[k].log[Len(new[k].log)].type = TypeGiven(call')]_vars

C11_Witness ==
  /\ call.op = "addMissionLog"
  /\ call.thrown = "none"
  /\ Len(Stored(storage)) = 2
  /\ Len(Stored(storage)[2].log) = 3
  /\ Stored(storage)[2].log[1].event = "Mission created"
  /\ Stored(storage)[2].log[2].type = "info"
  /\ Stored(storage)[2].log[3].type = "warning"

\* C12: addMissionLog changes nothing but the target mission's log: the
\* other missions, the order of the collection and every other field of the
\* target (status, startedAt, completedAt, outcome, ...) are unchanged, and
\* when no persisted mission has the id the store is not written at all.
C12_OnlyTargetLogChanges ==
  [][LogAppendOnWorkingStore =>
       LET old == Stored(storage)
           new == Stored(storage')
           k == findIndex(old, call'.arg[3])
           res == addMissionLog(storage, call'.arg[3], "Entered orbit",
                                TypeGiven(call'), now, FALSE, FALSE)
       IN  /\ Len(new) = Len(old)
           /\ \A j \in 1..Len(old) :
                 /\ j # k => new[j] = old[j]
                 /\ DOMAIN new[j] = DOMAIN old[j]
                 /\ \A f \in DOMAIN old[j] \ {"log"} : new[j][f] = old[j][f]
           /\ (k # 0 /\ old[k].status = "PLANNING") => new[k].status = "PLANNING"
           /\ k = 0 => (~res.wrote /\ storage' = storage)]_vars

C12_Witness ==
  /\ call.op = "addMissionLog"
  /\ call.thrown = "none"
  /\ Len(Stored(storage)) = 2
  /\ Len(Stored(storage)[1].log) = 1
  /\ Len(Stored(storage)[2].log) = 2
  /\ Stored(storage)[2].status = "PLANNING"
  /\ Stored(storage)[1].id # Stored(storage)[2].id

(***************************************************************************)
(* The catalog under the lifecycle operations                              *)
(***************************************************************************)
NextCatalog ==
  \/ CreateStrikeMission
  \/ GetMissionType
  \/ GetAllMissionTypes
  \/ LoadMissions
  \/ SaveMissions
  \/ AddMissionLog

SpecCatalog == InitCreate /\ [][NextCatalog]_vars

\* C23: after any sequence of core operations getAllMissionTypes returns the 5
\* archetypes of the catalog with their field values, and getMissionType
\* returns the entry for each of the 5 ids and null for any other id.
C23_CatalogIsClosed ==
  /\ call.op = "getAllMissionTypes" =>
       /\ Len(call.value[1]) = 5
       /\ \A i \in 1..5 : call.value[1][i] = MISSION_TYPES[CatalogOrder[i]]
  /\ call.op = "getMissionType" =>
       call.value = (IF call.arg[1] \in CatalogIds
                     THEN <<MISSION_TYPES[call.arg[1]]>> ELSE <<>>)

(***************************************************************************)
(* Mission lifecycle: two browsing contexts on one localStorage item.      *)
(* addMissionLog is synchronous within a context, but between its getItem  *)
(* (loadMissions) and its setItem (saveMissions) another context can run.  *)
(***************************************************************************)
MaxAppends == 2

\* The event each caller logs.
eventOf(w) == IF w = "A" THEN "Entered orbit" ELSE "Docked"

\* The number of completed saves by writer w on mission id.
SavesBy(w, id) ==
  Cardinality({i \in 1..Len(writers.saved) :
                 writers.saved[i].writer = w /\ writers.saved[i].id = id})

InitWriters ==
  /\ InitCreate
  /\ ~Malformed(storage)

\* Caller w enters addMissionLog(missionId, eventOf(w)) and runs loadMissions().
BeginAddMissionLog(w) ==
  /\ writers.pc[w] = "idle"
  /\ Cardinality({i \in 1..Len(writers.saved) : writers.saved[i].writer = w}) < MaxAppends
  /\ \E missionId \in IdInputs :
       writers' = [writers EXCEPT
                     !.pc[w] = "loaded",
                     !.loaded[w] = storage,
                     !.target[w] = missionId,
                     !.overlapped = @ \/ \E v \in Writers \ {w} : writers.pc[v] = "loaded"]
  /\ UNCHANGED <<sideVars, statVars, envVars, recVars, storage, held, call>>

\* Caller w finds the mission in its copy, pushes the entry and saves.
FinishAddMissionLog(w) ==
  /\ writers.pc[w] = "loaded"
  /\ LET res == finishAddMissionLog(writers.loaded[w], storage, writers.target[w],
                                     eventOf(w), "info", now)
     IN  /\ storage' = IF res.wrote THEN res.item ELSE storage
         /\ call' = [op |-> "addMissionLog",
                     arg |-> <<FALSE, FALSE, writers.target[w], <<>>>>,
                     thrown |-> res.thrown, value |-> <<>>]
         /\ writers' = [writers EXCEPT
                          !.pc[w] = "idle",
                          !.loaded[w] = NoItem,
                          !.target[w] = NoTarget,
                          !.saved = IF res.wrote
                                    THEN Append(@, [writer |-> w,
                                                    id |-> writers.target[w],
                                                    loaded |-> writers.loaded[w]])
                                    ELSE @]
  /\ UNCHANGED <<sideVars, statVars, envVars, recVars, held>>

NextWriters == \E w \in Writers : BeginAddMissionLog(w) \/ FinishAddMissionLog(w)

SpecWriters == InitWriters /\ [][NextWriters]_vars

\* The number of entries with this event in the log of the first mission
\* with this id in the collection item holds.
EntriesIn(item, id, event) ==
  LET ms == Stored(item)
      k == findIndex(ms, id)
  IN  IF k = 0 THEN 0
      ELSE Cardinality({i \in 1..Len(ms[k].log) : ms[k].log[i].event = event})

\* C13: the read-modify-write of addMissionLog is not atomic across callers:
\* when the last two saves came from different callers that had loaded the
\* same collection, the store lacks the entry of the one that saved first;
\* while no caller has loaded when another was between its load and its
\* save, every appended entry is in the store.
C13_LostUpdateOnlyWhenWritersOverlap ==
  LET n == Len(writers.saved)
  IN  /\ ~writers.overlapped =>
            \A w \in Writers, id \in IdInputs :
              EntriesIn(storage, id, eventOf(w)) = SavesBy(w, id)
      /\ (/\ n >= 2
          /\ writers.saved[n].writer # writers.saved[n - 1].writer
          /\ writers.saved[n].loaded = writers.saved[n - 1].loaded) =>
            LET first == writers.saved[n - 1]
            IN  EntriesIn(storage, first.id, eventOf(first.writer))
                  = EntriesIn(first.loaded, first.id, eventOf(first.writer))

\* A lost update: both callers loaded, then both saved an entry to the same
\* mission, and the store holds only the entry of the second.
C13_Witness ==
  /\ writers.overlapped
  /\ Len(writers.saved) = 2
  /\ writers.saved[1].writer = "A"
  /\ writers.saved[2].writer = "B"
  /\ writers.saved[1].id = writers.saved[2].id
  /\ writers.saved[1].loaded = writers.saved[2].loaded
  /\ EntriesIn(storage, writers.saved[1].id, eventOf("A")) = 0
  /\ EntriesIn(storage, writers.saved[1].id, eventOf("B")) = 1

(***************************************************************************)
(* Two runs of the pipeline on the same bars                               *)
(***************************************************************************)
InitRuns ==
  /\ InitStats
  /\ Len(bars) \in {4, 5}

NextRuns ==
  \/ ComputeEnvironment
  \/ GenerateRecommendations

SpecRuns == InitRuns /\ [][NextRuns]_vars

FlightTickers == {"RKLB", "ACHR"}

\* The callers that each make one computeEnvironment call.
FlightCalls == {"first", "second"}

\* The series the provider may hold for a ticker; the first is too short.
FlightSeries ==
  {TrendBars(4, "slow", "above", "none", "none"),
   TrendBars(5, "slow", "above", "far", "none"),
   TrendBars(5, "flat", "zigzag", "none", "buy2"),
   FlowBars(6, "mid", "pos", "above", "mid")}

IdleFlight == [pc |-> "idle", ticker |-> "", outcome |-> NoCall]

\* await IndicatorLoader.getRecentBars(ticker, lookback) of call c resolves.
fetchedBars(f, c) == f.feed[f.calls[c].ticker]

\* Mutant of resolvedEnvironment: the ticker is the one of the call started
\* last, as if it were kept in a variable shared by the calls.
resolvedEnvironmentShared(f, c, t) ==
  LET last == f.calls[f.started[Len(f.started)]].ticker
  IN  computeEnvironment(last, f.feed[last], t)

\* The rest of computeEnvironment once the fetch of call c has resolved: it
\* reads only the call's own ticker and bars, and the clock.
resolvedEnvironment(f, c, t) ==
  computeEnvironment(f.calls[c].ticker, fetchedBars(f, c), t)

InitFlights ==
  /\ bars = <<>>
  /\ out = NoStatCall
  /\ env = NoCall
  /\ prevEnv = NoCall
  /\ now = 0
  /\ recs = <<>>
  /\ prevRecs = <<>>
  /\ storage = NoItem
  /\ held = <<>>
  /\ call = NoLifecycleCall
  /\ writers = IdleWriters
  /\ \E feed \in [FlightTickers -> FlightSeries] :
       fetches = [feed |-> feed, calls |-> [c \in FlightCalls |-> IdleFlight],
                  started |-> <<>>, resolved |-> <<>>]
  /\ brief = BriefLoaded
  /\ nav = NavConstructed

\* computeEnvironment(ticker) up to its await: the call is suspended.
StartComputeEnvironment(c) ==
  /\ fetches.calls[c].pc = "idle"
  /\ \E ticker \in FlightTickers :
       fetches' = [fetches EXCEPT !.calls[c].pc = "awaiting",
                                  !.calls[c].ticker = ticker,
                                  !.started = Append(@, c)]
  /\ UNCHANGED <<statVars, envVars, recVars, missionVars, brief, nav>>

\* The provider resolves the fetch of call c, which runs to its return.
ResolveFetch(c) ==
  /\ fetches.calls[c].pc = "awaiting"
  /\ now < MaxClock
  /\ LET res == resolvedEnvironment(fetches, c, now)
     IN  /\ fetches' = [fetches EXCEPT !.calls[c].pc = "done",
                                        !.calls[c].outcome = res,
                                        !.resolved = Append(@, c)]
         /\ env' = res
  /\ bars' = fetchedBars(fetches, c)
  /\ prevEnv' = env
  /\ now' = now + 1
  /\ UNCHANGED <<out, recVars, missionVars, brief, nav>>

NextFlights ==
  \/ \E c \in FlightCalls : StartComputeEnvironment(c)
  \/ \E c \in FlightCalls : ResolveFetch(c)
  \/ GenerateRecommendations
  \/ GetAllMissionTypes

\* No fairness: a provider may never resolve a fetch.
SpecFlights == InitFlights /\ [][NextFlights]_vars

Suspended(c) == fetches.calls[c].pc = "awaiting"

\* Each returned snapshot is the one computeEnvironment gives for the ticker
\* and the bars of its own call, at some reading of the clock.
OwnSnapshot(c) ==
  fetches.calls[c].pc = "done" =>
    \E t \in 0..MaxClock :
      fetches.calls[c].outcome =
        computeEnvironment(fetches.calls[c].ticker,
                           fetches.feed[fetches.calls[c].ticker], t)

BriefTickers == {"RKLB", "ACHR"}

\* The timers one run may create.
MaxTimers == 7

CloseTriggers ==
  {"dialogEscape", "globalEscape", "backdrop", "closeButton", "closeShipBrief"}

TimerKinds == {"boot", "bar", "focus", "close"}

\* setTimeout(callback, delay): the pending timer with the next id.  ticker
\* is the data the callback closes over, gen the open() it descends from.
newTimer(b, kind, ticker, gen) ==
  [id |-> b.nextId, kind |-> kind, ticker |-> ticker, gen |-> gen]

\* Mutant of clearAllTimers: the close timer is left alone.
clearAllTimersKeepingClose(b) ==
  [b EXCEPT !.pending = {t \in @ : t.id \notin {b.bootTimer, b.barTimer, b.focusTimer}},
            !.bootTimer = 0, !.barTimer = 0, !.focusTimer = 0]

\* clearAllTimers(): clearTimeout on every non-null handle, then null.
clearAllTimers(b) ==
  [b EXCEPT !.pending = {t \in @ : t.id \notin
                           {b.bootTimer, b.barTimer, b.focusTimer, b.closeTimer}},
            !.bootTimer = 0, !.barTimer = 0, !.focusTimer = 0, !.closeTimer = 0]

\* Is the hide of a close() still pending?
hidePending(b) == \E t \in b.pending : t.kind = "close" /\ t.id = b.closeTimer

\* Mutant of openBrief: the timers of the previous open are not cleared.
openBriefKeepingTimers(b, ticker) ==
  [b EXCEPT !.dialogEl = TRUE, !.currentTicker = <<ticker>>,
            !.hidden = FALSE, !.isVisible = TRUE, !.globalEsc = TRUE,
            !.bootTimer = b.nextId,
            !.pending = @ \cup {newTimer(b, "boot", ticker, b.nextId)},
            !.nextId = @ + 1,
            !.gen = b.nextId, !.lastCall = "open", !.lastOpened = <<ticker>>,
            !.closeEvents = 0, !.hideCancelled = hidePending(b), !.ran = <<>>]

\* open(ticker) for a truthy ticker: ensureDialog, currentTicker,
\* clearAllTimers, show, isVisible, global Escape listener, boot timer,
\* shipbrief:open.
openBrief(b, ticker) ==
  LET c == clearAllTimers(b)
  IN  [c EXCEPT !.dialogEl = TRUE, !.currentTicker = <<ticker>>,
                !.hidden = FALSE, !.isVisible = TRUE, !.globalEsc = TRUE,
                !.bootTimer = c.nextId,
                !.pending = @ \cup {newTimer(c, "boot", ticker, c.nextId)},
                !.nextId = @ + 1,
                !.gen = c.nextId, !.lastCall = "open", !.lastOpened = <<ticker>>,
                !.closeEvents = 0, !.hideCancelled = hidePending(b), !.ran = <<>>]

\* Does close() get past its guard?
closeActs(b) == b.dialogEl /\ b.isVisible

\* close(): nothing without a visible dialog; else clearAllTimers, the
\* 300 ms close timer, the global listener removed, shipbrief:close.
closeBrief(b) ==
  IF ~closeActs(b)
  THEN [b EXCEPT !.lastCall = "close", !.gen = 0, !.ran = <<>>]
  ELSE LET c == clearAllTimers(b)
       IN  [c EXCEPT !.closeTimer = c.nextId,
                     !.pending = @ \cup {newTimer(c, "close", "", 0)},
                     !.nextId = @ + 1,
                     !.globalEsc = FALSE,
                     !.closeEvents = @ + 1,
                     !.lastCall = "close", !.gen = 0, !.ran = <<>>]

\* What the last step ran: the timer, and whether its callback got past
\* its isVisible guard (the close callback has none).
ranOf(b, t) ==
  <<[kind |-> t.kind, ticker |-> t.ticker, gen |-> t.gen,
     executed |-> (t.kind = "close" \/ b.isVisible)]>>

\* The browser fires pending timer t.
fireTimer(b, t) ==
  LET c == [b EXCEPT !.pending = @ \ {t}, !.ran = ranOf(b, t)]
  IN  CASE t.kind = "boot" ->
             IF ~b.isVisible THEN c
             ELSE [c EXCEPT !.barTimer = c.nextId,
                            !.focusTimer = c.nextId + 1,
                            !.pending = @ \cup
                              {newTimer(c, "bar", t.ticker, t.gen),
                               newTimer([c EXCEPT !.nextId = @ + 1], "focus", t.ticker, t.gen)},
                            !.nextId = @ + 2]
        [] t.kind \in {"bar", "focus"} -> c
        [] t.kind = "close" ->
             [c EXCEPT !.hidden = TRUE, !.currentTicker = <<>>, !.isVisible = FALSE]

isOpen(b) == b.isVisible

getCurrentTicker(b) == b.currentTicker

InitBrief ==
  /\ bars = <<>>
  /\ out = NoStatCall
  /\ env = NoCall
  /\ prevEnv = NoCall
  /\ now = 0
  /\ recs = <<>>
  /\ prevRecs = <<>>
  /\ storage = NoItem
  /\ held = <<>>
  /\ call = NoLifecycleCall
  /\ writers = IdleWriters
  /\ SideIdle

\* open(ticker); a falsy ticker returns at once.
OpenBrief ==
  /\ \E ticker \in BriefTickers \cup {""} :
       IF ticker = ""
       THEN brief' = [brief EXCEPT !.ran = <<>>]
       ELSE /\ brief.nextId + 2 <= MaxTimers
            /\ brief' = openBrief(brief, ticker)
  /\ UNCHANGED <<statVars, envVars, recVars, missionVars, fetches, nav>>

\* Can the trigger reach close()?  The dialog's own handlers exist once
\* ensureDialog ran and need a dialog that is not hidden; the global handler
\* is registered between open() and close() and tests isVisible itself.
triggerReaches(b, trigger) ==
  CASE trigger = "closeShipBrief" -> TRUE
    [] trigger = "globalEscape" -> b.globalEsc /\ b.isVisible
    [] OTHER -> b.dialogEl /\ ~b.hidden

CloseBrief ==
  /\ \E trigger \in CloseTriggers :
       /\ triggerReaches(brief, trigger)
       /\ closeActs(brief) => brief.nextId <= MaxTimers
       /\ brief' = closeBrief(brief)
  /\ UNCHANGED <<statVars, envVars, recVars, missionVars, fetches, nav>>

FireTimer ==
  /\ \E t \in brief.pending : brief' = fireTimer(brief, t)
  /\ UNCHANGED <<statVars, envVars, recVars, missionVars, fetches, nav>>

NextBrief ==
  \/ OpenBrief
  \/ CloseBrief
  \/ FireTimer

SpecBrief == InitBrief /\ [][NextBrief]_vars

\* A timer that stays pending is fired by the browser.
SpecBriefFair == SpecBrief /\ WF_vars(FireTimer)

\* C28: between one shipbrief:open event and the next, at most one
\* shipbrief:close event is dispatched, whatever triggers close().
C28_AtMostOneCloseEventPerOpen == brief.closeEvents <= 1

\* The second half of C28 on its own: a close() while isOpen() is false
\* dispatches no shipbrief:close.
C28_CloseOnClosedDialogDispatchesNothing ==
  [][(brief'.lastCall = "close" /\ ~isOpen(brief))
       => brief'.closeEvents = brief.closeEvents]_vars

\* C27: after an open(ticker) with no later close(), isOpen() is true and
\* getCurrentTicker() is that ticker, whatever timers fire (a hide pending
\* from an earlier close() included); after a close() with no later open(),
\* isOpen() becomes false and getCurrentTicker() null.
C27_StaysOpen ==
  brief.lastCall = "open" =>
    /\ isOpen(brief)
    /\ getCurrentTicker(brief) = brief.lastOpened

C27_EventuallyClosed ==
  (brief.lastCall = "close")
    ~> (brief.lastCall = "open"
          \/ (~isOpen(brief) /\ getCurrentTicker(brief) = <<>>))

C27_ReopenCancelsPendingHide == []C27_StaysOpen /\ C27_EventuallyClosed

\* A reopen within the hide delay, all of whose timers have since fired.
C27_Witness ==
  /\ brief.lastCall = "open"
  /\ brief.hideCancelled
  /\ brief.pending = {}
  /\ isOpen(brief)
  /\ getCurrentTicker(brief) = <<"ACHR">>

\* C29: a boot, bar-animation or focus-trap callback runs only for the most
\* recent open(), and only while no close() has been called since: the bars
\* are animated with the data of the last opened ticker.
C29_NoStaleCallbackRuns ==
  (brief.ran # <<>> /\ brief.ran[1].kind \in {"boot", "bar", "focus"}) =>
    /\ brief.ran[1].executed
    /\ brief.lastCall = "open"
    /\ brief.ran[1].gen = brief.gen
    /\ <<brief.ran[1].ticker>> = brief.lastOpened
    /\ <<brief.ran[1].ticker>> = getCurrentTicker(brief)

\* The bars animate for the second ticker after open, close, open.
C29_Witness ==
  /\ brief.ran # <<>>
  /\ brief.ran[1].kind = "bar"
  /\ brief.ran[1].ticker = "ACHR"
  /\ brief.hideCancelled
  /\ \E t \in brief.pending : t.kind = "focus"

(***************************************************************************)
(* CockpitNav (src/unnamed/part_000): the selected ship and its opponent   *)
(***************************************************************************)
ships ==
  <<"RKLB", "ACHR", "LUNR", "JOBY", "ASTS", "BKSY", "GME", "GE", "KTOS", "LHX",
    "PL", "RDW", "RTX", "COHR", "EVEX">>

ShipSet == {ships[i] : i \in 1..Len(ships)}

Panels == {"hangar", "battle", "news"}

\* this.ships.filter(s => s !== exclude)
opponentPool(exclude) == SelectSeq(ships, LAMBDA t : t # exclude)

\* The values Math.floor(Math.random() * pool.length) can take.
RandomIndexes == 0..(Len(ships) - 1)

\* getRandomOpponent(exclude) when the random index comes out as r.
getRandomOpponent(exclude, r) ==
  LET pool == opponentPool(exclude)
  IN  IF r + 1 <= Len(pool) THEN pool[r + 1] ELSE "ACHR"

\* Mutant of updateBattlePreview: an opponent once drawn is kept.
updateBattlePreviewKeeping(n, r) ==
  IF n.currentOpponent = <<>>
  THEN [n EXCEPT !.currentOpponent = <<getRandomOpponent(n.selectedShip, r)>>]
  ELSE n

\* updateBattlePreview(): a new opponent only when there is none or it is the
\* player's ship.
updateBattlePreview(n, r) ==
  IF n.currentOpponent = <<>> \/ n.currentOpponent = <<n.selectedShip>>
  THEN [n EXCEPT !.currentOpponent = <<getRandomOpponent(n.selectedShip, r)>>]
  ELSE n

InitNav ==
  /\ bars = <<>>
  /\ out = NoStatCall
  /\ env = NoCall
  /\ prevEnv = NoCall
  /\ now = 0
  /\ recs = <<>>
  /\ prevRecs = <<>>
  /\ storage = NoItem
  /\ held = <<>>
  /\ call = NoLifecycleCall
  /\ writers = IdleWriters
  /\ SideIdle

\* A random index that the pool of the current player ship admits.
RandomFor(r) == r < Len(opponentPool(nav.selectedShip))

\* init(): initHangar() updates the ship display, then switchPanel('hangar').
NavInit ==
  /\ ~nav.initialized
  /\ \E r \in RandomIndexes :
       /\ RandomFor(r)
       /\ nav' = [updateBattlePreview([nav EXCEPT !.initialized = TRUE], r)
                    EXCEPT !.currentPanel = "hangar", !.arena = <<>>]
  /\ UNCHANGED <<statVars, envVars, recVars, missionVars, fetches, brief>>

\* selectShip(ticker): updateShipDisplay() ends with updateBattlePreview().
SelectShip ==
  /\ nav.initialized
  /\ \E ticker \in ShipSet, r \in RandomIndexes :
       /\ r < Len(opponentPool(ticker))
       /\ nav' = [updateBattlePreview([nav EXCEPT !.selectedShip = ticker], r)
                    EXCEPT !.arena = <<>>]
  /\ UNCHANGED <<statVars, envVars, recVars, missionVars, fetches, brief>>

\* switchPanel(panel): the battle panel calls showBattleReady().
SwitchPanel ==
  /\ nav.initialized
  /\ \E panel \in Panels, r \in RandomIndexes :
       /\ RandomFor(r)
       /\ nav' = [(IF panel = "battle" THEN updateBattlePreview(nav, r) ELSE nav)
                    EXCEPT !.currentPanel = panel, !.arena = <<>>]
  /\ UNCHANGED <<statVars, envVars, recVars, missionVars, fetches, brief>>

RandomizeOpponent ==
  /\ nav.initialized
  /\ \E r \in RandomIndexes :
       /\ RandomFor(r)
       /\ nav' = [nav EXCEPT !.currentOpponent = <<getRandomOpponent(nav.selectedShip, r)>>,
                              !.arena = <<>>]
  /\ UNCHANGED <<statVars, envVars, recVars, missionVars, fetches, brief>>

\* launchBattle(): arena is what BeyArena.open was called with, <<>> when
\* BeyArena is not loaded.
LaunchBattle ==
  /\ nav.initialized
  /\ \E r \in RandomIndexes, arenaLoaded \in BOOLEAN :
       /\ RandomFor(r)
       /\ LET opponent == IF nav.currentOpponent # <<>> THEN nav.currentOpponent[1]
                           ELSE getRandomOpponent(nav.selectedShip, r)
          IN  nav' = [nav EXCEPT !.arena =
                        IF arenaLoaded
                        THEN <<[player |-> nav.selectedShip, opponent |-> opponent]>>
                        ELSE <<>>]
  /\ UNCHANGED <<statVars, envVars, recVars, missionVars, fetches, brief>>

NextNav ==
  \/ NavInit
  \/ SelectShip
  \/ SwitchPanel
  \/ RandomizeOpponent
  \/ LaunchBattle

SpecNav == InitNav /\ [][NextNav]_vars

\* C30: after init, following any selectShip, switchPanel, randomizeOpponent
\* and launchBattle calls, the current opponent is a ship of the list other
\* than the selected ship, and launchBattle never opens the arena with the
\* player's ship as its own opponent.
C30_OpponentIsAnotherShip ==
  nav.initialized =>
    /\ nav.currentOpponent # <<>>
    /\ nav.currentOpponent[1] \in ShipSet
    /\ nav.currentOpponent[1] # nav.selectedShip
    /\ nav.arena # <<>> =>
         /\ nav.arena[1].player = nav.selectedShip
         /\ nav.arena[1].opponent \in ShipSet \ {nav.arena[1].player}

C30_Witness ==
  /\ nav.initialized
  /\ nav.currentPanel = "battle"
  /\ nav.arena = <<[player |-> "ACHR", opponent |-> "RKLB"]>>

(***************************************************************************)
(* The whole system                                                        *)
(***************************************************************************)
Init == InitStats \/ InitRec \/ InitCreate

Next ==
  NextStats \/ NextRec \/ NextCreate \/ NextStore \/ NextWriters \/ NextCatalog
  \/ NextFlights
  \/ NextBrief \/ NextNav

Spec == Init /\ [][Next]_vars

=============================================================================
